---------------------------- MODULE Spec2Model ----------------------------
(***************************************************************************)
(* Model of the betandbeat/authorization decision engine:                  *)
(*   - the in-memory statement store        (src/storage_inmem.go)         *)
(*   - the in-memory principal resolver     (src/principal_resolver_inmem.go) *)
(*   - the decision evaluator               (src/unnamed/part_002)         *)
(*   - the expanding evaluator              (src/remote_test.go:74-174)    *)
(*   - conditions                           (src/types.go)                 *)
(*                                                                         *)
(* Go strings that the program inspects character by character (patterns,  *)
(* principals, actions, resources) are sequences of one-character strings. *)
(* Strings the program only copies or compares (statement IDs, condition   *)
(* names and expressions, message fragments) are TLA+ strings, and a Go    *)
(* string built by concatenation or fmt.Sprintf is the sequence of its     *)
(* parts.                                                                  *)
(***************************************************************************)
EXTENDS Integers, Sequences, FiniteSets, TLC

(***************************************************************************)
(* Bounds of the model.                                                    *)
(***************************************************************************)
\* Largest number of statements held by the in-memory store.
MaxStatements == 3

(***************************************************************************)
(* github.com/bmatcuk/doublestar/v4 Match, as called by the store and the  *)
(* evaluator: literals, '?', '*', '**' and '[' character classes over the  *)
(* separator '/'.  The alphabet of the model has no '\', '{', '-', '!' and *)
(* '^', so escapes, alternatives, ranges and negated classes do not occur. *)
(* Indices are 1-based; a backtrack index of 0 is Go's -1.                 *)
(***************************************************************************)
Separator == "/"

MatchTrue  == [matched |-> TRUE,  err |-> <<>>]
MatchFalse == [matched |-> FALSE, err |-> <<>>]
\* doublestar.ErrBadPattern = path.ErrBadPattern
ErrBadPattern == <<"syntax error in pattern">>
MatchBad   == [matched |-> FALSE, err |-> ErrBadPattern]

Suffix(s, i) == SubSeq(s, i, Len(s))

\* Index of the ']' closing the class whose first member is at i; 0 if none.
RECURSIVE ClassEnd(_, _)
ClassEnd(pattern, i) ==
    IF i > Len(pattern) THEN 0
    ELSE IF pattern[i] = "]" THEN i
    ELSE ClassEnd(pattern, i + 1)

\* doValidatePattern: every '[' opens a non-empty class closed by ']'.
RECURSIVE doValidatePattern(_)
doValidatePattern(pattern) ==
    IF Len(pattern) = 0 THEN TRUE
    ELSE IF pattern[1] = "["
         THEN LET e == ClassEnd(pattern, 2)
              IN  IF e = 0 \/ e = 2 THEN FALSE
                  ELSE doValidatePattern(Suffix(pattern, e + 1))
         ELSE doValidatePattern(Suffix(pattern, 2))

\* isZeroLengthPattern: can the rest of the pattern match the empty string.
isZeroLengthPattern(pattern) ==
    IF \/ pattern = <<>>
       \/ pattern = <<"*">>
       \/ pattern = <<"*", "*">>
       \/ pattern = <<Separator, "*", "*">>
       \/ pattern = <<"*", "*", Separator>>
       \/ pattern = <<Separator, "*", "*", Separator>>
    THEN MatchTrue
    ELSE IF ~doValidatePattern(pattern) THEN MatchBad ELSE MatchFalse

\* Index just after the first separator of name at or after i; 0 if none.
RECURSIVE AfterNextSeparator(_, _)
AfterNextSeparator(name, i) ==
    IF i > Len(name) THEN 0
    ELSE IF name[i] = Separator THEN i + 1
    ELSE AfterNextSeparator(name, i + 1)

\* doMatchWithSeparator(pattern, name, '/', validate = true, ...): the MATCH
\* loop, one iteration per unfolding.
RECURSIVE doMatch(_, _, _, _, _, _, _, _, _)
doMatch(pattern, name, dsPat, dsName, starPat, starName, patIdx, nameIdx, startOfSegment) ==
    LET patLen  == Len(pattern)
        nameLen == Len(name)
        \* the code after the switch: '*' backtrack, '**' backtrack, give up
        Backtrack ==
            IF starPat > 0 /\ name[starName] # Separator
            THEN doMatch(pattern, name, dsPat, dsName, starPat, starName + 1,
                         starPat, starName + 1, FALSE)
            ELSE IF dsPat > 0 /\ AfterNextSeparator(name, dsName) > 0
            THEN LET k == AfterNextSeparator(name, dsName)
                 IN  doMatch(pattern, name, dsPat, k, starPat, starName, dsPat, k, TRUE)
            ELSE IF patIdx <= patLen /\ ~doValidatePattern(Suffix(pattern, patIdx))
            THEN MatchBad
            ELSE MatchFalse
        \* a single star, or a doublestar treated as one, with the pattern
        \* index already past it
        Star(p) == doMatch(pattern, name, dsPat, dsName, p, nameIdx, p, nameIdx, FALSE)
    IN
    IF nameIdx > nameLen THEN isZeroLengthPattern(Suffix(pattern, patIdx))
    ELSE IF patIdx > patLen THEN Backtrack
    ELSE IF pattern[patIdx] = "*" THEN
        IF patIdx + 1 <= patLen /\ pattern[patIdx + 1] = "*"
        THEN IF startOfSegment
             THEN IF patIdx + 2 > patLen THEN MatchTrue
                  ELSE IF pattern[patIdx + 2] = Separator
                       THEN doMatch(pattern, name, patIdx + 3, nameIdx, 0, 0,
                                    patIdx + 3, nameIdx, startOfSegment)
                       ELSE Star(patIdx + 2)
             ELSE Star(patIdx + 2)
        ELSE Star(patIdx + 1)
    ELSE IF pattern[patIdx] = "?" THEN
        IF name[nameIdx] = Separator THEN Backtrack
        ELSE doMatch(pattern, name, dsPat, dsName, starPat, starName,
                     patIdx + 1, nameIdx + 1, FALSE)
    ELSE IF pattern[patIdx] = "[" THEN
        LET e == ClassEnd(pattern, patIdx + 1)
        IN  IF e = 0 \/ e = patIdx + 1 THEN MatchBad
            ELSE IF \E k \in (patIdx + 1)..(e - 1) : pattern[k] = name[nameIdx]
                 THEN doMatch(pattern, name, dsPat, dsName, starPat, starName,
                              e + 1, nameIdx + 1, FALSE)
                 ELSE Backtrack
    ELSE IF pattern[patIdx] # name[nameIdx] THEN Backtrack
    ELSE doMatch(pattern, name, dsPat, dsName, starPat, starName,
                 patIdx + 1, nameIdx + 1, pattern[patIdx] = Separator)

\* doublestar.Match(pattern, name): (matched bool, err error)
Match(pattern, name) == doMatch(pattern, name, 0, 0, 0, 0, 1, 1, TRUE)

(***************************************************************************)
(* The strings of the model (types.go: Principal, Action, Resource are Go  *)
(* strings).                                                               *)
(***************************************************************************)
\* "users/mark"
UsersMark == <<"u", "s", "e", "r", "s", "/", "m", "a", "r", "k">>
\* "roles/moderator"
RolesModerator == <<"r", "o", "l", "e", "s", "/", "m", "o", "d", "e", "r", "a", "t", "o", "r">>
\* "roles/analyst"
RolesAnalyst == <<"r", "o", "l", "e", "s", "/", "a", "n", "a", "l", "y", "s", "t">>
\* "user:1"
User1 == <<"u", "s", "e", "r", ":", "1">>
\* "read"
ActRead == <<"r", "e", "a", "d">>
\* "write"
ActWrite == <<"w", "r", "i", "t", "e">>
\* "invoices/1"
Invoice1 == <<"i", "n", "v", "o", "i", "c", "e", "s", "/", "1">>
\* "invoices/9"
Invoice9 == <<"i", "n", "v", "o", "i", "c", "e", "s", "/", "9">>
\* "*"
PatStar == <<"*">>
\* "**"
PatDoubleStar == <<"*", "*">>
\* "users/*"
PatUsersStar == <<"u", "s", "e", "r", "s", "/", "*">>
\* "user:*"
PatUserColonStar == <<"u", "s", "e", "r", ":", "*">>
\* "roles/*"
PatRolesStar == <<"r", "o", "l", "e", "s", "/", "*">>
\* "invoices/*"
PatInvoicesStar == <<"i", "n", "v", "o", "i", "c", "e", "s", "/", "*">>
\* "["
PatBad == <<"[">>
\* "users/bob"
UsersBob == <<"u", "s", "e", "r", "s", "/", "b", "o", "b">>
\* "folders/*/documents/*"
PatFoldersDocuments == <<"f", "o", "l", "d", "e", "r", "s", "/", "*", "/", "d", "o", "c", "u", "m", "e", "n", "t", "s", "/", "*">>
\* "folders/123/documents/456"
FoldersDocument == <<"f", "o", "l", "d", "e", "r", "s", "/", "1", "2", "3", "/", "d", "o", "c", "u", "m", "e", "n", "t", "s", "/", "4", "5", "6">>
\* "folders/123/456"
FoldersNoDocuments == <<"f", "o", "l", "d", "e", "r", "s", "/", "1", "2", "3", "/", "4", "5", "6">>
\* "user:123"
User123 == <<"u", "s", "e", "r", ":", "1", "2", "3">>
\* "secure/**"
PatSecure == <<"s", "e", "c", "u", "r", "e", "/", "*", "*">>
\* "secure/vault/data"
SecureVaultData == <<"s", "e", "c", "u", "r", "e", "/", "v", "a", "u", "l", "t", "/", "d", "a", "t", "a">>
\* "secure/*"
PatSecureStar == <<"s", "e", "c", "u", "r", "e", "/", "*">>
\* "secure/**/data"
PatDeepData == <<"s", "e", "c", "u", "r", "e", "/", "*", "*", "/", "d", "a", "t", "a">>
\* "users/"
UsersPrefix == <<"u", "s", "e", "r", "s", "/">>

(***************************************************************************)
(* Domain model (types.go).                                                *)
(***************************************************************************)
EffectAllow == "allow"
EffectDeny  == "deny"

\* A nil *string, and a pointer to a string.
NilDecider == [present |-> FALSE, value |-> <<>>]
Ptr(s)     == [present |-> TRUE,  value |-> s]

\* A nil *Principal.
NilPrincipal == [present |-> FALSE, value |-> <<>>]

\* A nil error; an error is the sequence of the parts of its text.
NilError == <<>>

\* Response{}: the zero value returned beside an error.
ZeroResponse == [Effect |-> "", Message |-> <<>>, Decider |-> NilDecider]

\* fmt's %q verb applied to a string without special characters.
Quote(s) == <<"\"", s, "\"">>

(***************************************************************************)
(* Conditions.  expr.Compile and expr.Run of github.com/expr-lang/expr are *)
(* given by their results on the expressions the statements of the model   *)
(* carry.                                                                  *)
(***************************************************************************)
IPLocal  == "127.0.0.1"
IPRemote == "192.168.1.1"

ExprIsLocal  == "context.Request.IP == \"127.0.0.1\""
ExprIsRemote == "context.Request.IP != \"127.0.0.1\""
ExprInvalid  == "invalid syntax"
ExprNonBool  == "1 + 1"
ExprRuntime  == "int(context.Request.IP) > 0"

\* expr.Compile(c.Expression): the program (here the expression itself) or
\* a compile error.
exprCompile(expression) ==
    IF expression = ExprInvalid
    THEN [program |-> "", err |-> <<"unexpected token">>]
    ELSE [program |-> expression, err |-> NilError]

\* expr.Run(program, req): a dynamically typed value or a runtime error.
exprRun(program, req) ==
    IF program = ExprIsLocal
    THEN [res |-> [type |-> "bool", val |-> req.Context.IP = IPLocal], err |-> NilError]
    ELSE IF program = ExprIsRemote
    THEN [res |-> [type |-> "bool", val |-> req.Context.IP # IPLocal], err |-> NilError]
    ELSE IF program = ExprRuntime
    THEN [res |-> [type |-> "nil", val |-> FALSE],
          err |-> <<"invalid operation: int(", req.Context.IP, ")">>]
    ELSE [res |-> [type |-> "int", val |-> FALSE], err |-> NilError]

\* func (c *Condition) Evaluate(req Request) (bool, error)
\* Faulty variant of ConditionEvaluate: a result that is no bool is an error.
ConditionEvaluateNonBoolError(c, req) ==
    LET compiled == exprCompile(c.Expression)
    IN  IF compiled.err # NilError THEN [met |-> FALSE, err |-> compiled.err]
        ELSE LET ran == exprRun(compiled.program, req)
             IN  IF ran.err # NilError THEN [met |-> FALSE, err |-> ran.err]
                 ELSE IF ran.res.type = "bool"
                      THEN [met |-> ran.res.val, err |-> NilError]
                      ELSE [met |-> FALSE, err |-> <<"expression is not a bool">>]

ConditionEvaluate(c, req) ==
    LET compiled == exprCompile(c.Expression)
    IN  IF compiled.err # NilError THEN [met |-> FALSE, err |-> compiled.err]
        ELSE LET ran == exprRun(compiled.program, req)
             IN  IF ran.err # NilError THEN [met |-> FALSE, err |-> ran.err]
                 ELSE IF ran.res.type = "bool"
                      THEN [met |-> ran.res.val, err |-> NilError]
                      ELSE [met |-> FALSE, err |-> NilError]

(***************************************************************************)
(* The decision evaluator (unnamed/part_002).                              *)
(***************************************************************************)
enhancePattern(pattern) ==
    IF pattern = <<"*">> THEN <<"*", "*">> ELSE pattern

\* Faulty variant of actionMatches: a pattern doublestar.Match rejects ends
\* the loop, and the patterns after it are not tried.
actionMatchesStopAtError(actions, requestedAction) ==
    \E i \in 1..Len(actions) :
        /\ Match(enhancePattern(actions[i]), requestedAction).matched
        /\ \A j \in 1..(i - 1) : Match(enhancePattern(actions[j]), requestedAction).err = NilError

\* for _, a := range actions { if matched, _ := doublestar.Match(...); matched
\* { return true } }; return false
actionMatches(actions, requestedAction) ==
    \E i \in 1..Len(actions) : Match(enhancePattern(actions[i]), requestedAction).matched

\* Faulty variant of resourceMatches: the arguments of doublestar.Match are
\* exchanged.
resourceMatchesSwapped(resources, requestedResource) ==
    \E i \in 1..Len(resources) : Match(requestedResource, enhancePattern(resources[i])).matched

resourceMatches(resources, requestedResource) ==
    \E i \in 1..Len(resources) : Match(enhancePattern(resources[i]), requestedResource).matched

principalMatches(principals, requestedPrincipal) ==
    \E i \in 1..Len(principals) : Match(enhancePattern(principals[i]), requestedPrincipal).matched

\* Faulty variant of conditionsFrom: every condition is evaluated, and a
\* condition that is false does not end the loop.
RECURSIVE conditionsFromNoShortCircuit(_, _, _)
conditionsFromNoShortCircuit(conditions, req, i) ==
    IF i > Len(conditions) THEN [met |-> TRUE, err |-> NilError, evaluated |-> i - 1]
    ELSE LET r    == ConditionEvaluate(conditions[i], req)
             rest == conditionsFromNoShortCircuit(conditions, req, i + 1)
         IN  IF r.err # NilError
             THEN [met |-> FALSE,
                   err |-> <<"failed to evaluate condition ">> \o Quote(conditions[i].Name)
                           \o <<": ">> \o r.err,
                   evaluated |-> i]
             ELSE IF rest.err # NilError THEN rest
             ELSE [met |-> r.met /\ rest.met, err |-> NilError, evaluated |-> rest.evaluated]

\* The loop of allConditionsMet from the i-th condition on.  evaluated is
\* the number of calls of cond.Evaluate the loop made.
RECURSIVE conditionsFrom(_, _, _)
conditionsFrom(conditions, req, i) ==
    IF i > Len(conditions) THEN [met |-> TRUE, err |-> NilError, evaluated |-> i - 1]
    ELSE LET r == ConditionEvaluate(conditions[i], req)
         IN  IF r.err # NilError
             THEN [met |-> FALSE,
                   err |-> <<"failed to evaluate condition ">> \o Quote(conditions[i].Name)
                           \o <<": ">> \o r.err,
                   evaluated |-> i]
             ELSE IF ~r.met THEN [met |-> FALSE, err |-> NilError, evaluated |-> i]
             ELSE conditionsFrom(conditions, req, i + 1)

allConditionsMet(conditions, req) == conditionsFrom(conditions, req, 1)

\* Faulty variant of statementMatches: the conditions are evaluated before
\* the three axes are looked at.
statementMatchesConditionsFirst(stmt, req) ==
    LET c == allConditionsMet(stmt.Conditions, req)
    IN  IF c.err # NilError THEN [matches |-> FALSE, err |-> c.err]
        ELSE IF ~principalMatches(stmt.Principals, req.Principal)
             THEN [matches |-> FALSE, err |-> NilError]
        ELSE IF ~actionMatches(stmt.Actions, req.Action)
             THEN [matches |-> FALSE, err |-> NilError]
        ELSE IF ~resourceMatches(stmt.Resources, req.Resource)
             THEN [matches |-> FALSE, err |-> NilError]
        ELSE [matches |-> c.met, err |-> NilError]

statementMatches(stmt, req) ==
    IF ~principalMatches(stmt.Principals, req.Principal) THEN [matches |-> FALSE, err |-> NilError]
    ELSE IF ~actionMatches(stmt.Actions, req.Action) THEN [matches |-> FALSE, err |-> NilError]
    ELSE IF ~resourceMatches(stmt.Resources, req.Resource) THEN [matches |-> FALSE, err |-> NilError]
    ELSE LET c == allConditionsMet(stmt.Conditions, req)
         IN  IF c.err # NilError THEN [matches |-> FALSE, err |-> c.err]
             ELSE [matches |-> c.met, err |-> NilError]

filterStatementsByEffect(stmts, effect) ==
    SelectSeq(stmts, LAMBDA s : s.Effect = effect)

\* What the deny loop returns when statement stmt stops it.
DenyResponse(stmt, m) ==
    IF m.err # NilError
    THEN [Effect  |-> EffectDeny,
          Message |-> <<"failed to evaluate condition for deny statement ">>
                      \o Quote(stmt.ID) \o <<": ">> \o m.err,
          Decider |-> Ptr(<<stmt.ID>>)]
    ELSE [Effect  |-> EffectDeny,
          Message |-> <<"denied by statement ">> \o Quote(stmt.ID),
          Decider |-> Ptr(<<stmt.ID>>)]

AllowResponse(stmt) ==
    [Effect  |-> EffectAllow,
     Message |-> <<"allowed by statement ">> \o Quote(stmt.ID),
     Decider |-> Ptr(<<stmt.ID>>)]

DefaultDenyNoStatements ==
    [Effect  |-> EffectDeny,
     Message |-> <<"no applicable statements found, access denied by default">>,
     Decider |-> NilDecider]

DefaultDenyNoMatch ==
    [Effect  |-> EffectDeny,
     Message |-> <<"no matching statement found, access denied by default">>,
     Decider |-> NilDecider]

\* Faulty variant of allowLoop: the last Allow statement that matches decides.
RECURSIVE allowLoopLastMatch(_, _, _)
allowLoopLastMatch(allowStatements, req, i) ==
    IF i > Len(allowStatements) THEN DefaultDenyNoMatch
    ELSE LET m    == statementMatches(allowStatements[i], req)
             rest == allowLoopLastMatch(allowStatements, req, i + 1)
         IN  IF rest.Effect = EffectAllow THEN rest
             ELSE IF m.err = NilError /\ m.matches THEN AllowResponse(allowStatements[i])
             ELSE rest

\* Faulty variant of allowLoop: a condition error ends the scan.
RECURSIVE allowLoopStopOnError(_, _, _)
allowLoopStopOnError(allowStatements, req, i) ==
    IF i > Len(allowStatements) THEN DefaultDenyNoMatch
    ELSE LET m == statementMatches(allowStatements[i], req)
         IN  IF m.err # NilError THEN DefaultDenyNoMatch
             ELSE IF m.matches THEN AllowResponse(allowStatements[i])
             ELSE allowLoopStopOnError(allowStatements, req, i + 1)

\* The loop over allowStatements from the i-th statement on, and what
\* follows it.
RECURSIVE allowLoop(_, _, _)
allowLoop(allowStatements, req, i) ==
    IF i > Len(allowStatements) THEN DefaultDenyNoMatch
    ELSE LET m == statementMatches(allowStatements[i], req)
         IN  IF m.err # NilError THEN allowLoop(allowStatements, req, i + 1)
             ELSE IF m.matches THEN AllowResponse(allowStatements[i])
             ELSE allowLoop(allowStatements, req, i + 1)

\* Faulty variant of denyLoop: a condition error skips the Deny statement.
RECURSIVE denyLoopSkipErrors(_, _, _, _)
denyLoopSkipErrors(denyStatements, allowStatements, req, i) ==
    IF i > Len(denyStatements) THEN allowLoop(allowStatements, req, 1)
    ELSE LET m == statementMatches(denyStatements[i], req)
         IN  IF m.err = NilError /\ m.matches THEN DenyResponse(denyStatements[i], m)
             ELSE denyLoopSkipErrors(denyStatements, allowStatements, req, i + 1)

\* The loop over denyStatements from the i-th statement on, and what
\* follows it.
RECURSIVE denyLoop(_, _, _, _)
denyLoop(denyStatements, allowStatements, req, i) ==
    IF i > Len(denyStatements) THEN allowLoop(allowStatements, req, 1)
    ELSE LET m == statementMatches(denyStatements[i], req)
         IN  IF m.err # NilError \/ m.matches THEN DenyResponse(denyStatements[i], m)
             ELSE denyLoop(denyStatements, allowStatements, req, i + 1)

\* Faulty variant of Evaluate: the Allow statements are scanned first.
EvaluateAllowFirst(listed, req) ==
    IF listed.err # NilError
    THEN [resp |-> ZeroResponse,
          err  |-> <<"failed to list statements: ">> \o listed.err]
    ELSE IF Len(listed.statements) = 0
    THEN [resp |-> DefaultDenyNoStatements, err |-> NilError]
    ELSE LET deny  == filterStatementsByEffect(listed.statements, EffectDeny)
             allow == filterStatementsByEffect(listed.statements, EffectAllow)
             a     == allowLoop(allow, req, 1)
         IN  [resp |-> IF a.Effect = EffectAllow THEN a ELSE denyLoop(deny, allow, req, 1),
              err  |-> NilError]

\* Faulty variant of Evaluate: no check for an empty candidate list.
EvaluateNoEmptyCheck(listed, req) ==
    IF listed.err # NilError
    THEN [resp |-> ZeroResponse,
          err  |-> <<"failed to list statements: ">> \o listed.err]
    ELSE [resp |-> denyLoop(filterStatementsByEffect(listed.statements, EffectDeny),
                            filterStatementsByEffect(listed.statements, EffectAllow),
                            req, 1),
          err  |-> NilError]

\* Faulty variant of Evaluate: a storage error is answered by a default deny.
EvaluateSwallowListError(listed, req) ==
    IF listed.err # NilError \/ Len(listed.statements) = 0
    THEN [resp |-> DefaultDenyNoStatements, err |-> NilError]
    ELSE [resp |-> denyLoop(filterStatementsByEffect(listed.statements, EffectDeny),
                            filterStatementsByEffect(listed.statements, EffectAllow),
                            req, 1),
          err  |-> NilError]

\* The statements from the i-th on taken one by one, Deny and Allow mixed.
RECURSIVE listOrderLoop(_, _, _)
listOrderLoop(stmts, req, i) ==
    IF i > Len(stmts) THEN DefaultDenyNoMatch
    ELSE LET m == statementMatches(stmts[i], req)
         IN  IF stmts[i].Effect = EffectDeny /\ (m.err # NilError \/ m.matches)
             THEN DenyResponse(stmts[i], m)
             ELSE IF stmts[i].Effect = EffectAllow /\ m.err = NilError /\ m.matches
             THEN AllowResponse(stmts[i])
             ELSE listOrderLoop(stmts, req, i + 1)

\* Faulty variant of Evaluate: the list is not partitioned, and the first
\* statement of the list that applies decides.
EvaluateInListOrder(listed, req) ==
    IF listed.err # NilError
    THEN [resp |-> ZeroResponse,
          err  |-> <<"failed to list statements: ">> \o listed.err]
    ELSE IF Len(listed.statements) = 0
    THEN [resp |-> DefaultDenyNoStatements, err |-> NilError]
    ELSE [resp |-> listOrderLoop(listed.statements, req, 1), err |-> NilError]

\* func (e *evaluator) Evaluate(req Request) (Response, error), given what
\* e.storage.ListStatementsByPrincipal(req.Principal) returned.
Evaluate(listed, req) ==
    IF listed.err # NilError
    THEN [resp |-> ZeroResponse,
          err  |-> <<"failed to list statements: ">> \o listed.err]
    ELSE IF Len(listed.statements) = 0
    THEN [resp |-> DefaultDenyNoStatements, err |-> NilError]
    ELSE [resp |-> denyLoop(filterStatementsByEffect(listed.statements, EffectDeny),
                            filterStatementsByEffect(listed.statements, EffectAllow),
                            req, 1),
          err  |-> NilError]

(***************************************************************************)
(* The in-memory store (storage_inmem.go).  The map s.statements is a      *)
(* function from the IDs it holds to statements.                           *)
(***************************************************************************)
\* The inner loop of ListStatementsByPrincipal over stmt.Principals from
\* the i-th pattern on: the pattern is matched as stored.
RECURSIVE principalScan(_, _, _)
principalScan(patterns, principal, i) ==
    IF i > Len(patterns) THEN "none"
    ELSE LET m == Match(patterns[i], principal)
         IN  IF m.err # NilError THEN "error"
             ELSE IF m.matched THEN "matched"
             ELSE principalScan(patterns, principal, i + 1)

\* The orders in which ranging over a Go map can visit the elements of S.
Orders(S) ==
    {f \in [1..Cardinality(S) -> S] : \A i, j \in 1..Cardinality(S) : f[i] = f[j] => i = j}

\* func (s *inMemoryStorage) ListStatementsByPrincipal(principal): the set
\* of the results the call can return on the map store; the order of a Go
\* map range is unspecified.  An error ends the outer loop, and without
\* one every statement of the map is visited.
ListStatementsByPrincipal(store, principal) ==
    LET scan(id) == principalScan(store[id].Principals, principal, 1)
    IN  IF \E id \in DOMAIN store : scan(id) = "error"
        THEN {[statements |-> <<>>, err |-> ErrBadPattern]}
        ELSE {[statements |-> result, err |-> NilError] :
                result \in Orders({store[id] : id \in {d \in DOMAIN store : scan(d) = "matched"}})}

(***************************************************************************)
(* mockStorage of the evaluator's tests (unnamed/part_001:234-249).        *)
(***************************************************************************)
MockListStatementsByPrincipal(listStatementsErr, principal) ==
    IF listStatementsErr # NilError
    THEN [statements |-> <<>>, err |-> listStatementsErr]
    ELSE [statements |-> <<>>, err |-> NilError]

(***************************************************************************)
(* Principal resolvers (principal_resolver_inmem.go, and the               *)
(* PrincipalResolver interface of remote_test.go:78-82).                   *)
(***************************************************************************)
\* strings.HasPrefix
HasPrefix(s, prefix) ==
    Len(s) >= Len(prefix) /\ SubSeq(s, 1, Len(prefix)) = prefix

\* Faulty variant of ResolvePrincipals: a mapping is followed whatever the
\* scheme of the principal.
ResolvePrincipalsAnyScheme(mappings, principal) ==
    [principals |-> IF principal \in DOMAIN mappings
                    THEN <<principal>> \o mappings[principal]
                    ELSE <<principal>>,
     err |-> NilError]

\* func (r *inMemoryPrincipalResolver) ResolvePrincipals(principal)
ResolvePrincipals(mappings, principal) ==
    [principals |-> IF HasPrefix(principal, UsersPrefix) /\ principal \in DOMAIN mappings
                    THEN <<principal>> \o mappings[principal]
                    ELSE <<principal>>,
     err |-> NilError]

\* A PrincipalResolver whose ResolvePrincipals fails.
ResolverError == <<"resolver unavailable">>
FailingResolvePrincipals(principal) ==
    [principals |-> <<>>, err |-> ResolverError]

(***************************************************************************)
(* The expanding evaluator (remote_test.go:90-174).                        *)
(***************************************************************************)
PrincipalExpansion == <<"principal_expansion:">>

\* Faulty variant of expandDecide: an explicit allow is looked at first.
expandDecideAllowFirst(allowingPrincipal, denyingPrincipal) ==
    IF allowingPrincipal.present
    THEN [Effect  |-> EffectAllow,
          Message |-> <<"access allowed for principal ">> \o allowingPrincipal.value,
          Decider |-> Ptr(PrincipalExpansion \o allowingPrincipal.value)]
    ELSE IF denyingPrincipal.present
    THEN [Effect  |-> EffectDeny,
          Message |-> <<"access denied for principal ">> \o denyingPrincipal.value,
          Decider |-> Ptr(PrincipalExpansion \o denyingPrincipal.value)]
    ELSE [Effect  |-> EffectDeny,
          Message |-> <<"no matching statements found for any expanded principal, access denied by default">>,
          Decider |-> NilDecider]

\* The decision logic after the loop.
expandDecide(allowingPrincipal, denyingPrincipal) ==
    IF denyingPrincipal.present
    THEN [Effect  |-> EffectDeny,
          Message |-> <<"access denied for principal ">> \o denyingPrincipal.value,
          Decider |-> Ptr(PrincipalExpansion \o denyingPrincipal.value)]
    ELSE IF allowingPrincipal.present
    THEN [Effect  |-> EffectAllow,
          Message |-> <<"access allowed for principal ">> \o allowingPrincipal.value,
          Decider |-> Ptr(PrincipalExpansion \o allowingPrincipal.value)]
    ELSE [Effect  |-> EffectDeny,
          Message |-> <<"no matching statements found for any expanded principal, access denied by default">>,
          Decider |-> NilDecider]

\* Faulty variant of trackDeny: a default deny counts as an explicit one.
trackDenyAnyDeny(denyingPrincipal, response, principal) ==
    IF response.Effect = EffectDeny /\ ~denyingPrincipal.present
    THEN Ptr(principal) ELSE denyingPrincipal

\* Track first explicit deny: the new value of denyingPrincipal.  The loop
\* variable is per iteration, so &principal keeps the principal of the
\* iteration that took it: principal_resolver_test.go:112 expects the first
\* allowing principal, not the last resolved one, and remote_test.go:36 uses
\* testing.T.Context, which needs a toolchain with per-iteration variables.
trackDeny(denyingPrincipal, response, principal) ==
    IF response.Effect = EffectDeny /\ ~denyingPrincipal.present /\ response.Decider.present
    THEN Ptr(principal) ELSE denyingPrincipal

\* Faulty variant of trackAllow: a later explicit allow replaces an earlier one.
trackAllowLast(allowingPrincipal, response, principal) ==
    IF response.Effect = EffectAllow /\ response.Decider.present
    THEN Ptr(principal) ELSE allowingPrincipal

\* Track first explicit allow: the new value of allowingPrincipal.
trackAllow(allowingPrincipal, response, principal) ==
    IF response.Effect = EffectAllow /\ ~allowingPrincipal.present /\ response.Decider.present
    THEN Ptr(principal) ELSE allowingPrincipal

\* Faulty variant of expandLoop: an error of the wrapped evaluator skips the
\* principal and the expansion goes on.
RECURSIVE expandLoopSkipError(_, _, _, _, _, _)
expandLoopSkipError(principals, outs, i, responses, allowingPrincipal, denyingPrincipal) ==
    IF i > Len(principals)
    THEN [resp |-> expandDecide(allowingPrincipal, denyingPrincipal), err |-> NilError,
          responses |-> responses, invoked |-> i - 1]
    ELSE IF outs[i].err # NilError
    THEN expandLoopSkipError(principals, outs, i + 1, responses,
                             allowingPrincipal, denyingPrincipal)
    ELSE expandLoopSkipError(principals, outs, i + 1, Append(responses, outs[i].resp),
                             trackAllow(allowingPrincipal, outs[i].resp, principals[i]),
                             trackDeny(denyingPrincipal, outs[i].resp, principals[i]))

\* The loop over the resolved principals from the i-th on, and what follows
\* it.  outs[i] is what e.baseEvaluator.Evaluate returns for principals[i].
\* invoked is the number of calls of e.baseEvaluator.Evaluate.
RECURSIVE expandLoop(_, _, _, _, _, _)
expandLoop(principals, outs, i, responses, allowingPrincipal, denyingPrincipal) ==
    IF i > Len(principals)
    THEN [resp |-> expandDecide(allowingPrincipal, denyingPrincipal), err |-> NilError,
          responses |-> responses, invoked |-> i - 1]
    ELSE IF outs[i].err # NilError
    THEN [resp |-> [Effect  |-> EffectDeny,
                    Message |-> <<"evaluation error for principal ">> \o principals[i]
                                \o <<": ">> \o outs[i].err,
                    Decider |-> NilDecider],
          err |-> NilError, responses |-> responses, invoked |-> i]
    ELSE expandLoop(principals, outs, i + 1, Append(responses, outs[i].resp),
                    trackAllow(allowingPrincipal, outs[i].resp, principals[i]),
                    trackDeny(denyingPrincipal, outs[i].resp, principals[i]))

\* Faulty variant of ExpandingEvaluate: a resolver error is returned as an error.
ExpandingEvaluatePropagate(resolved, outs, req) ==
    IF resolved.err # NilError
    THEN [resp |-> ZeroResponse,
          err |-> <<"failed to resolve principals: ">> \o resolved.err,
          responses |-> <<>>, invoked |-> 0]
    ELSE expandLoop(resolved.principals, outs, 1, <<>>, NilPrincipal, NilPrincipal)

\* func (e *ExpandingEvaluator) Evaluate(req Request) (Response, error),
\* given what e.resolver.ResolvePrincipals(req.Principal) returned and what
\* the wrapped evaluator returns for each resolved principal.
ExpandingEvaluate(resolved, outs, req) ==
    IF resolved.err # NilError
    THEN [resp |-> [Effect  |-> EffectDeny,
                    Message |-> <<"failed to resolve principals: ">> \o resolved.err,
                    Decider |-> NilDecider],
          err |-> NilError, responses |-> <<>>, invoked |-> 0]
    ELSE expandLoop(resolved.principals, outs, 1, <<>>, NilPrincipal, NilPrincipal)

(***************************************************************************)
(* The statements, requests and role mappings the operations draw from.    *)
(***************************************************************************)
Stmt(id, active, effect, principals, actions, resources, conditions) ==
    [ID |-> id, Active |-> active, Effect |-> effect, Principals |-> principals,
     Actions |-> actions, Resources |-> resources, Conditions |-> conditions]

Cond(name, expression) == [Name |-> name, Expression |-> expression]

StatementPool ==
    { Stmt("allow-moderator-download", TRUE, EffectAllow,
           <<RolesModerator>>, <<ActRead>>, <<PatInvoicesStar>>, <<>>),
      Stmt("deny-analyst-specific", TRUE, EffectDeny,
           <<RolesAnalyst>>, <<ActRead>>, <<Invoice1>>, <<>>),
      \* the same ID again: saving it replaces the statement above
      Stmt("deny-analyst-specific", FALSE, EffectDeny,
           <<PatRolesStar>>, <<PatStar>>, <<PatDoubleStar>>, <<>>),
      Stmt("allow-all", TRUE, EffectAllow,
           <<PatStar>>, <<ActRead>>, <<PatStar>>, <<>>),
      Stmt("deny-bad-cond", TRUE, EffectDeny,
           <<PatUsersStar>>, <<ActRead>>, <<PatInvoicesStar>>, <<Cond("BadCond", ExprInvalid)>>),
      Stmt("deny-remote-bad-cond", TRUE, EffectDeny,
           <<UsersMark>>, <<ActRead>>, <<PatInvoicesStar>>,
           <<Cond("IsRemote", ExprIsRemote), Cond("BadCond", ExprInvalid)>>),
      Stmt("allow-bad-cond", TRUE, EffectAllow,
           <<PatUsersStar, PatUserColonStar>>, <<PatStar>>, <<PatInvoicesStar>>,
           <<Cond("IPIsNumber", ExprRuntime)>>),
      Stmt("allow-local", TRUE, EffectAllow,
           <<UsersMark, User1>>, <<ActRead>>, <<PatInvoicesStar>>,
           <<Cond("IsLocal", ExprIsLocal)>>),
      Stmt("deny-remote", TRUE, EffectDeny,
           <<PatDoubleStar>>, <<ActRead>>, <<Invoice9>>, <<Cond("IsRemote", ExprIsRemote)>>),
      Stmt("allow-mark-bad-pattern", TRUE, EffectAllow,
           <<UsersMark, PatBad>>, <<PatBad, ActRead>>, <<PatDoubleStar>>, <<>>),
      Stmt("odd-effect", TRUE, "Allow",
           <<PatDoubleStar>>, <<PatStar>>, <<PatStar>>, <<>>),
      Stmt("allow-non-bool", TRUE, EffectAllow,
           <<User1>>, <<ActRead>>, <<PatDoubleStar>>, <<Cond("NonBool", ExprNonBool)>>),
      Stmt("deny-no-actions", TRUE, EffectDeny,
           <<PatDoubleStar>>, <<>>, <<PatDoubleStar>>, <<>>) }

StatementIDs == {s.ID : s \in StatementPool}

Req(principal, action, resource, ip) ==
    [Principal |-> principal, Action |-> action, Resource |-> resource,
     Context |-> [IP |-> ip]]

RequestPool ==
    { Req(UsersMark, ActRead, Invoice1, IPLocal),
      Req(UsersMark, ActRead, Invoice9, IPLocal),
      Req(UsersMark, ActRead, Invoice9, IPRemote),
      Req(UsersMark, ActWrite, Invoice1, IPLocal),
      Req(RolesAnalyst, ActRead, Invoice1, IPLocal),
      Req(User1, ActRead, Invoice9, IPLocal),
      Req(User1, ActRead, Invoice9, IPRemote) }

\* The requests made of an evaluator whose storage or resolver is a stub.
StubRequestPool == {Req(UsersMark, ActRead, Invoice1, IPLocal)}

\* The arguments of AddRoleMapping.
RoleMappingPool ==
    { <<UsersMark, <<RolesModerator, RolesAnalyst>> >>,
      <<UsersMark, <<RolesAnalyst, RolesModerator>> >> }

\* mockStorage.listStatementsErr
MockErrors == {NilError, <<"database is down">>}

(***************************************************************************)
(* State.                                                                  *)
(***************************************************************************)
VARIABLES
    statements,    \* inMemoryStorage.statements
    roleMappings,  \* inMemoryPrincipalResolver.roleMappings
    op,            \* the last call of an evaluator, "none" when there is none
    request,       \* its argument
    listed,        \* Evaluate: what ListStatementsByPrincipal returned
    resolved,      \* ExpandingEvaluator.Evaluate: what ResolvePrincipals returned
    responses,     \* ExpandingEvaluator.Evaluate: its local responses
    invoked,       \* ExpandingEvaluator.Evaluate: calls of the wrapped evaluator
    response,      \* the Response returned
    err,           \* the error returned
    previous,      \* what the call before returned, when the caller repeats a call
    helper,        \* the last call of a function of the evaluator on its own
    mu,            \* inMemoryStorage.mu, a sync.RWMutex
    pc,            \* concurrent callers: where each goroutine is in its operation
    local          \* concurrent callers: the operation, argument and locals of each

store == <<statements, roleMappings>>
call  == <<op, request, listed, resolved, responses, invoked, response, err, previous,
           helper>>
threads == <<mu, pc, local>>
vars  == <<statements, roleMappings, op, request, listed, resolved, responses,
           invoked, response, err, previous, helper, mu, pc, local>>

NoListed   == [statements |-> <<>>, err |-> NilError]
NoResolved == [principals |-> <<>>, err |-> NilError]
NoPrevious == [present |-> FALSE, resp |-> ZeroResponse, err |-> NilError]
NoHelper   == [fn |-> "none"]

\* Largest number of goroutines calling the store and the resolver at once.
MaxGoroutines == 2
Goroutines == 1..MaxGoroutines

\* The zero sync.RWMutex: no writer has announced itself or holds the lock
\* (rw.w free, readerCount not negative), and no reader holds it.  readers
\* is the set of the goroutines counted by readerCount.
UnlockedRWMutex == [w |-> FALSE, writer |-> 0, readers |-> {}]
NoLocal == [op |-> "none"]

\* No call of an evaluator is on record.
NoCall ==
    /\ op' = "none"
    /\ request' = Req(<<>>, <<>>, <<>>, "")
    /\ listed' = NoListed
    /\ resolved' = NoResolved
    /\ responses' = <<>>
    /\ invoked' = 0
    /\ response' = ZeroResponse
    /\ err' = NilError
    /\ previous' = NoPrevious
    /\ helper' = NoHelper
    /\ UNCHANGED threads

Init ==
    /\ statements = <<>>
    /\ roleMappings = <<>>
    /\ op = "none"
    /\ request = Req(<<>>, <<>>, <<>>, "")
    /\ listed = NoListed
    /\ resolved = NoResolved
    /\ responses = <<>>
    /\ invoked = 0
    /\ response = ZeroResponse
    /\ err = NilError
    /\ previous = NoPrevious
    /\ helper = NoHelper
    /\ mu = UnlockedRWMutex
    /\ pc = [g \in Goroutines |-> "idle"]
    /\ local = [g \in Goroutines |-> NoLocal]

\* m[k] = v on a Go map.
MapSet(m, k, v) == [x \in DOMAIN m \cup {k} |-> IF x = k THEN v ELSE m[x]]
\* delete(m, k)
MapDelete(m, k) == [x \in DOMAIN m \ {k} |-> m[x]]

(***************************************************************************)
(* Operations.                                                             *)
(***************************************************************************)
SaveStatement(statement) ==
    /\ op = "none"
    /\ Cardinality(DOMAIN statements \cup {statement.ID}) <= MaxStatements
    /\ statements' = MapSet(statements, statement.ID, statement)
    /\ UNCHANGED roleMappings
    /\ NoCall

DeleteStatement(id) ==
    /\ op = "none"
    /\ statements' = MapDelete(statements, id)
    /\ UNCHANGED roleMappings
    /\ NoCall

AddRoleMapping(userPrincipal, roles) ==
    /\ op = "none"
    /\ roleMappings' = MapSet(roleMappings, userPrincipal, roles)
    /\ UNCHANGED statements
    /\ NoCall

\* NewEvaluator(storage).Evaluate(req) on the in-memory store.
EvaluateCall(req) ==
    /\ op = "none"
    /\ \E l \in ListStatementsByPrincipal(statements, req.Principal) :
         LET r == Evaluate(l, req)
         IN  /\ op' = "Evaluate"
             /\ request' = req
             /\ listed' = l
             /\ response' = r.resp
             /\ err' = r.err
             /\ resolved' = NoResolved
             /\ responses' = <<>>
             /\ invoked' = 0
             /\ previous' = NoPrevious
             /\ UNCHANGED helper
             /\ UNCHANGED <<store, threads>>

\* NewEvaluator(&mockStorage{listStatementsErr}).Evaluate(req)
MockEvaluateCall(req, listStatementsErr) ==
    LET l == MockListStatementsByPrincipal(listStatementsErr, req.Principal)
        r == Evaluate(l, req)
    IN  /\ op = "none"
        /\ op' = "Evaluate"
        /\ request' = req
        /\ listed' = l
        /\ response' = r.resp
        /\ err' = r.err
        /\ resolved' = NoResolved
        /\ responses' = <<>>
        /\ invoked' = 0
        /\ previous' = NoPrevious
        /\ UNCHANGED helper
        /\ UNCHANGED <<store, threads>>

\* expandedReq := req; expandedReq.Principal = principal
Expanded(req, principal) == [req EXCEPT !.Principal = principal]

\* What the wrapped evaluator NewEvaluator(storage) can return for the
\* principals from the i-th on, one call after the other on the same store.
RECURSIVE WrappedFrom(_, _, _)
WrappedFrom(principals, req, i) ==
    IF i > Len(principals) THEN {<<>>}
    ELSE LET heads == {Evaluate(l, Expanded(req, principals[i])) :
                         l \in ListStatementsByPrincipal(statements, principals[i])}
         IN  {<<h>> \o t : h \in heads, t \in WrappedFrom(principals, req, i + 1)}

WrappedOutcomes(principals, req) == WrappedFrom(principals, req, 1)

\* NewExpandingEvaluator(NewEvaluator(storage), resolver).Evaluate(req) with
\* the in-memory resolver, or with a resolver that fails.
ExpandingEvaluateCall(req, resolverFails) ==
    LET res == IF resolverFails THEN FailingResolvePrincipals(req.Principal)
               ELSE ResolvePrincipals(roleMappings, req.Principal)
    IN  op = "none" /\ \E outs \in WrappedOutcomes(res.principals, req) :
            LET r == ExpandingEvaluate(res, outs, req)
            IN  /\ op' = "ExpandingEvaluate"
                /\ request' = req
                /\ resolved' = res
                /\ responses' = r.responses
                /\ invoked' = r.invoked
                /\ response' = r.resp
                /\ err' = r.err
                /\ listed' = NoListed
                /\ previous' = NoPrevious
                /\ UNCHANGED helper
                /\ UNCHANGED <<store, threads>>

\* The caller is done with the Response: an evaluator keeps nothing of a
\* call, and the next operation starts from the store alone.
Return ==
    /\ op # "none"
    /\ NoCall
    /\ UNCHANGED <<store, threads>>

Next ==
    \/ \E statement \in StatementPool : SaveStatement(statement)
    \/ \E id \in StatementIDs : DeleteStatement(id)
    \/ \E m \in RoleMappingPool : AddRoleMapping(m[1], m[2])
    \/ \E req \in RequestPool : EvaluateCall(req)
    \/ \E req \in StubRequestPool, e \in MockErrors : MockEvaluateCall(req, e)
    \/ \E req \in RequestPool : ExpandingEvaluateCall(req, FALSE)
    \/ \E req \in StubRequestPool : ExpandingEvaluateCall(req, TRUE)
    \/ Return

Spec == Init /\ [][Next]_vars

(***************************************************************************)
(* The in-memory principal resolver on its own: any sequence of            *)
(* AddRoleMapping calls, with keys of both schemes, empty role lists and   *)
(* roles that have a mapping themselves, and calls of ResolvePrincipals.   *)
(***************************************************************************)
\* The arguments of AddRoleMapping.
ResolverMappingPool ==
    { <<UsersMark, <<RolesModerator, RolesAnalyst>> >>,
      <<UsersMark, <<RolesAnalyst, RolesModerator>> >>,
      <<UsersMark, <<UsersBob>> >>,
      <<UsersMark, <<>> >>,
      <<UsersBob, <<RolesModerator>> >>,
      <<UsersBob, <<RolesAnalyst, UsersMark>> >>,
      <<RolesModerator, <<RolesAnalyst>> >> }

\* The arguments of ResolvePrincipals.
ResolverPrincipalPool == {UsersMark, UsersBob, RolesModerator, RolesAnalyst, User1}

\* resolver.ResolvePrincipals(principal); request keeps the argument.
ResolvePrincipalsCall(principal) ==
    LET res == ResolvePrincipals(roleMappings, principal)
    IN  /\ op = "none"
        /\ op' = "ResolvePrincipals"
        /\ request' = Req(principal, <<>>, <<>>, "")
        /\ resolved' = res
        /\ err' = res.err
        /\ listed' = NoListed
        /\ responses' = <<>>
        /\ invoked' = 0
        /\ response' = ZeroResponse
        /\ previous' = NoPrevious
        /\ UNCHANGED helper
        /\ UNCHANGED <<store, threads>>

NextResolver ==
    \/ \E m \in ResolverMappingPool : AddRoleMapping(m[1], m[2])
    \/ \E principal \in ResolverPrincipalPool : ResolvePrincipalsCall(principal)
    \/ Return

SpecResolver == Init /\ [][NextResolver]_vars

(***************************************************************************)
(* The evaluator over the in-memory store alone (no stub of the storage,   *)
(* no expansion), with a caller that may repeat a call: the same request   *)
(* again, with no operation on the store in between.                       *)
(***************************************************************************)
\* The statements saved.
StoreStatementPool ==
    {s \in StatementPool :
        s.ID \in {"allow-local", "allow-mark-bad-pattern", "deny-analyst-specific",
                  "deny-remote", "allow-moderator-download", "allow-all"}}

\* NewEvaluator(storage).Evaluate(request) once more.
EvaluateAgain ==
    /\ op = "Evaluate"
    /\ ~previous.present
    /\ \E l \in ListStatementsByPrincipal(statements, request.Principal) :
         LET r == Evaluate(l, request)
         IN  /\ previous' = [present |-> TRUE, resp |-> response, err |-> err]
             /\ listed' = l
             /\ response' = r.resp
             /\ err' = r.err
             /\ UNCHANGED <<op, request, resolved, responses, invoked, helper>>
             /\ UNCHANGED <<store, threads>>

NextStore ==
    \/ \E statement \in StoreStatementPool : SaveStatement(statement)
    \/ \E id \in {s.ID : s \in StoreStatementPool} : DeleteStatement(id)
    \/ \E m \in RoleMappingPool : AddRoleMapping(m[1], m[2])
    \/ \E req \in RequestPool : EvaluateCall(req)
    \/ EvaluateAgain
    \/ \E req \in RequestPool : ExpandingEvaluateCall(req, FALSE)
    \/ Return

SpecStore == Init /\ [][NextStore]_vars

(***************************************************************************)
(* The functions of the evaluator on their own: one call on arguments      *)
(* drawn from bounded sets.                                                *)
(***************************************************************************)
\* Longest generated pattern and longest generated value.
MaxPatternLen == 4
MaxNameLen == 4

SeqsUpTo(S, n) == UNION {[1..k -> S] : k \in 0..n}

\* The pattern lists handed to actionMatches, resourceMatches and
\* principalMatches: one pattern, generated or taken from the tests.
PatternPool ==
    SeqsUpTo({"a", "/", "*"}, MaxPatternLen)
    \cup {PatFoldersDocuments, PatUserColonStar, PatSecure, PatSecureStar, PatDeepData}

ValuePool ==
    SeqsUpTo({"a", "b", "/"}, MaxNameLen)
    \cup {FoldersDocument, FoldersNoDocuments, User123, SecureVaultData}

HelperCall(fn, args, result) ==
    /\ op = "none"
    /\ op' = fn
    /\ helper' = [fn |-> fn, args |-> args, result |-> result]
    /\ UNCHANGED <<request, listed, resolved, responses, invoked, response, err, previous>>
    /\ UNCHANGED <<store, threads>>

actionMatchesCall(actions, requestedAction) ==
    HelperCall("actionMatches", [patterns |-> actions, value |-> requestedAction],
               actionMatches(actions, requestedAction))

resourceMatchesCall(resources, requestedResource) ==
    HelperCall("resourceMatches", [patterns |-> resources, value |-> requestedResource],
               resourceMatches(resources, requestedResource))

principalMatchesCall(principals, requestedPrincipal) ==
    HelperCall("principalMatches", [patterns |-> principals, value |-> requestedPrincipal],
               principalMatches(principals, requestedPrincipal))

\* A call is made when none is on record; the pools are drawn from only then.
NextMatch ==
    \/ op = "none" /\ \E p \in PatternPool, v \in ValuePool : actionMatchesCall(<<p>>, v)
    \/ op = "none" /\ \E p \in PatternPool, v \in ValuePool : resourceMatchesCall(<<p>>, v)
    \/ op = "none" /\ \E p \in PatternPool, v \in ValuePool : principalMatchesCall(<<p>>, v)
    \/ Return

SpecMatch == Init /\ [][NextMatch]_vars

(***************************************************************************)
(* statementMatches and allConditionsMet on their own, and the evaluator   *)
(* over a storage that returns a given list of statements.                 *)
(***************************************************************************)
\* Longest generated list of conditions.
MaxConditions == 3

ConditionPool ==
    { Cond("IsLocal", ExprIsLocal), Cond("IsRemote", ExprIsRemote),
      Cond("BadCond", ExprInvalid), Cond("IPIsNumber", ExprRuntime),
      Cond("NonBool", ExprNonBool) }

ConditionListPool == SeqsUpTo(ConditionPool, MaxConditions)

\* Statements put together from lists of patterns and of conditions, the
\* empty lists among them.
GeneratedStatementPool ==
    { Stmt("generated", TRUE, effect, principals, actions, resources, conditions) :
        effect \in {EffectAllow, EffectDeny},
        principals \in {<<>>, <<UsersMark>>, <<PatBad, PatUsersStar>>, <<RolesAnalyst>>},
        actions \in {<<>>, <<ActRead>>, <<ActWrite, PatStar>>},
        resources \in {<<>>, <<Invoice1>>, <<PatInvoicesStar>>},
        conditions \in { <<>>, <<Cond("IsLocal", ExprIsLocal)>>, <<Cond("BadCond", ExprInvalid)>>,
                         <<Cond("IsLocal", ExprIsLocal), Cond("BadCond", ExprInvalid)>>,
                         <<Cond("IsRemote", ExprIsRemote), Cond("IPIsNumber", ExprRuntime)>>,
                         <<Cond("NonBool", ExprNonBool)>> } }

\* Longest list of statements the storage stub returns.
MaxListed == 3

\* The statements of the longer lists: Deny, Allow and neither, with
\* conditions that hold, fail and cannot be evaluated.
ListedStatementPool ==
    {s \in StatementPool :
        s.ID \in {"allow-local", "allow-all", "allow-bad-cond", "deny-remote",
                  "deny-bad-cond", "odd-effect"}}

statementMatchesCall(stmt, req) ==
    HelperCall("statementMatches", [stmt |-> stmt, req |-> req], statementMatches(stmt, req))

ConditionEvaluateCall(c, req) ==
    HelperCall("Condition.Evaluate", [c |-> c, req |-> req], ConditionEvaluate(c, req))

allConditionsMetCall(conditions, req) ==
    HelperCall("allConditionsMet", [conditions |-> conditions, req |-> req],
               allConditionsMet(conditions, req))

\* NewEvaluator(storage).Evaluate(req) with a storage whose
\* ListStatementsByPrincipal returns the given statements.
StubEvaluateCall(stmts, req) ==
    LET l == [statements |-> stmts, err |-> NilError]
        r == Evaluate(l, req)
    IN  /\ op = "none"
        /\ op' = "Evaluate"
        /\ request' = req
        /\ listed' = l
        /\ response' = r.resp
        /\ err' = r.err
        /\ UNCHANGED <<resolved, responses, invoked, previous, helper>>
        /\ UNCHANGED <<store, threads>>

NextStatement ==
    \/ op = "none" /\ \E stmt \in StatementPool \cup GeneratedStatementPool, req \in RequestPool :
          statementMatchesCall(stmt, req)
    \/ op = "none" /\ \E conditions \in ConditionListPool, req \in RequestPool :
          allConditionsMetCall(conditions, req)
    \/ op = "none" /\ \E c \in ConditionPool, req \in RequestPool :
          ConditionEvaluateCall(c, req)
    \/ op = "none" /\ \E stmt \in GeneratedStatementPool, req \in RequestPool :
          StubEvaluateCall(<<stmt>>, req)
    \/ op = "none" /\ \E s1, s2 \in StatementPool, req \in RequestPool :
          StubEvaluateCall(<<s1, s2>>, req)
    \/ op = "none" /\ \E stmts \in {l \in SeqsUpTo(ListedStatementPool, MaxListed) : Len(l) >= 3},
                          req \in RequestPool :
          StubEvaluateCall(stmts, req)
    \/ Return

SpecStatement == Init /\ [][NextStatement]_vars

(***************************************************************************)
(* Concurrent callers.  Each goroutine runs one operation of the store,    *)
(* of the resolver or of the evaluator at a time, a step at a time; the    *)
(* steps of different goroutines interleave.  pc[g] names the step g is    *)
(* about to take:                                                          *)
(*   "Lock"       s.mu.Lock() called        "RLock"     s.mu.RLock() called *)
(*   "LockWait"   rw.w taken, waiting for the readers to leave             *)
(*   "write"      lock held, at the statement that writes s.statements     *)
(*   "read"       read lock held, at the statements that read s.statements *)
(*   "Unlock", "RUnlock"   at the deferred release                         *)
(*   "decide"     Evaluate, after ListStatementsByPrincipal returned       *)
(*   "mapassign", "mapaccess"   at the resolver's write or read of         *)
(*                r.roleMappings                                           *)
(*   "return"     at the return of a resolver call that read nothing       *)
(*   "fatal"      the runtime ended the process                            *)
(***************************************************************************)
\* rw.w.Lock(): no other writer has announced itself or is inside.
CanLock(m) == ~m.w

\* The writer goes on once the readers that were inside have left.
CanLockAcquire(m) == m.readers = {}

\* Faulty variant of CanRLock: a reader does not wait for a writer.
CanRLockDespiteWriter(m) == TRUE

\* rw.RLock(): no writer has announced itself or is inside.
CanRLock(m) == ~m.w

\* A goroutine calls an operation: its locals are unset.
Begin(g, operation, arg, first) ==
    /\ pc[g] = "idle"
    /\ pc' = [pc EXCEPT ![g] = first]
    /\ local' = [local EXCEPT ![g] = [op |-> operation, arg |-> arg, found |-> FALSE,
                                      listed |-> NoListed, result |-> <<>>,
                                      resolved |-> NoResolved, outs |-> <<>>, seen |-> {}]]
    /\ UNCHANGED <<mu, store, call>>

\* A goroutine returns from its operation.
End(g) ==
    /\ pc' = [pc EXCEPT ![g] = "idle"]
    /\ local' = [local EXCEPT ![g] = NoLocal]

SaveStatementBegin(g, statement) == Begin(g, "SaveStatement", statement, "Lock")
DeleteStatementBegin(g, id) == Begin(g, "DeleteStatement", id, "Lock")
GetStatementBegin(g, id) == Begin(g, "GetStatement", id, "RLock")
ListStatementsByPrincipalBegin(g, principal) ==
    Begin(g, "ListStatementsByPrincipal", principal, "RLock")
\* Evaluate starts with e.storage.ListStatementsByPrincipal(req.Principal).
EvaluateBegin(g, req) == Begin(g, "Evaluate", req, "RLock")

\* ExpandingEvaluator.Evaluate starts with e.resolver.ResolvePrincipals, which
\* reads r.roleMappings only for a principal that starts with "users/".
\* seen collects the states of the store from the call on (history, not
\* part of the program).
ExpandingEvaluateBegin(g, req) ==
    /\ pc[g] = "idle"
    /\ pc' = [pc EXCEPT ![g] = IF HasPrefix(req.Principal, UsersPrefix)
                               THEN "mapaccess" ELSE "RLock"]
    /\ local' = [local EXCEPT ![g] = [op |-> "ExpandingEvaluate", arg |-> req, found |-> FALSE,
                                      listed |-> NoListed, result |-> <<>>,
                                      resolved |-> ResolvePrincipals(<<>>, req.Principal),
                                      outs |-> <<>>, seen |-> {statements}]]
    /\ UNCHANGED <<mu, store, call>>

\* s.mu.Lock(), first half: take rw.w and announce the writer.
Lock(g) ==
    /\ pc[g] = "Lock"
    /\ CanLock(mu)
    /\ mu' = [mu EXCEPT !.w = TRUE]
    /\ pc' = [pc EXCEPT ![g] = "LockWait"]
    /\ UNCHANGED <<local, store, call>>

\* s.mu.Lock(), second half.
LockAcquire(g) ==
    /\ pc[g] = "LockWait"
    /\ CanLockAcquire(mu)
    /\ mu' = [mu EXCEPT !.writer = g]
    /\ pc' = [pc EXCEPT ![g] = "write"]
    /\ UNCHANGED <<local, store, call>>

\* s.statements[statement.ID] = statement, or delete(s.statements, id)
Write(g) ==
    /\ pc[g] = "write"
    /\ statements' = IF local[g].op = "SaveStatement"
                     THEN MapSet(statements, local[g].arg.ID, local[g].arg)
                     ELSE MapDelete(statements, local[g].arg)
    /\ pc' = [pc EXCEPT ![g] = "Unlock"]
    /\ local' = [h \in Goroutines |->
                    IF local[h].op = "ExpandingEvaluate"
                    THEN [local[h] EXCEPT !.seen = @ \cup {statements'}]
                    ELSE local[h]]
    /\ UNCHANGED <<mu, roleMappings, call>>

\* defer s.mu.Unlock()
Unlock(g) ==
    /\ pc[g] = "Unlock"
    /\ mu' = [mu EXCEPT !.w = FALSE, !.writer = 0]
    /\ End(g)
    /\ UNCHANGED <<store, call>>

\* s.mu.RLock()
RLock(g) ==
    /\ pc[g] = "RLock"
    /\ CanRLock(mu)
    /\ mu' = [mu EXCEPT !.readers = @ \cup {g}]
    /\ pc' = [pc EXCEPT ![g] = "read"]
    /\ UNCHANGED <<local, store, call>>

\* stmt, ok := s.statements[id], or the loops of ListStatementsByPrincipal.
Read(g) ==
    /\ pc[g] = "read"
    /\ IF local[g].op = "GetStatement"
       THEN local' = [local EXCEPT ![g].found = local[g].arg \in DOMAIN statements]
       ELSE \E l \in ListStatementsByPrincipal(statements,
                        IF local[g].op = "Evaluate" THEN local[g].arg.Principal
                        ELSE IF local[g].op = "ExpandingEvaluate"
                        THEN local[g].resolved.principals[Len(local[g].outs) + 1]
                        ELSE local[g].arg) :
               local' = [local EXCEPT ![g].listed = l]
    /\ pc' = [pc EXCEPT ![g] = "RUnlock"]
    /\ UNCHANGED <<mu, store, call>>

\* defer s.mu.RUnlock(); Evaluate goes on with what was listed.
RUnlock(g) ==
    /\ pc[g] = "RUnlock"
    /\ mu' = [mu EXCEPT !.readers = @ \ {g}]
    /\ IF local[g].op \in {"Evaluate", "ExpandingEvaluate"}
       THEN pc' = [pc EXCEPT ![g] = "decide"] /\ UNCHANGED local
       ELSE End(g)
    /\ UNCHANGED <<store, call>>

\* The rest of Evaluate, on the list returned.  Under the expanding
\* evaluator it is the call for one expanded principal: the loop goes on to
\* the next principal, or ends at an error or after the last one.
EvaluateDecide(g) ==
    /\ pc[g] = "decide"
    /\ IF local[g].op = "Evaluate"
       THEN /\ local' = [local EXCEPT ![g].result = Evaluate(local[g].listed, local[g].arg)]
            /\ pc' = [pc EXCEPT ![g] = "return"]
       ELSE LET principals == local[g].resolved.principals
                out  == Evaluate(local[g].listed,
                                 Expanded(local[g].arg, principals[Len(local[g].outs) + 1]))
                outs == Append(local[g].outs, out)
            IN  IF out.err # NilError \/ Len(outs) = Len(principals)
                THEN /\ local' = [local EXCEPT ![g].outs = outs,
                                               ![g].result =
                                                   ExpandingEvaluate(local[g].resolved, outs,
                                                                     local[g].arg)]
                     /\ pc' = [pc EXCEPT ![g] = "return"]
                ELSE /\ local' = [local EXCEPT ![g].outs = outs]
                     /\ pc' = [pc EXCEPT ![g] = "RLock"]
    /\ UNCHANGED <<mu, store, call>>

\* AddRoleMapping and ResolvePrincipals take no lock.  ResolvePrincipals
\* reads r.roleMappings only for a principal that starts with "users/".
AddRoleMappingBegin(g, userPrincipal, roles) ==
    Begin(g, "AddRoleMapping", <<userPrincipal, roles>>, "mapassign")

ResolvePrincipalsBegin(g, principal) ==
    Begin(g, "ResolvePrincipals", principal,
          IF HasPrefix(principal, UsersPrefix) THEN "mapaccess" ELSE "return")

\* r.roleMappings[userPrincipal] = roles
MapAssign(g) ==
    /\ pc[g] = "mapassign"
    /\ roleMappings' = MapSet(roleMappings, local[g].arg[1], local[g].arg[2])
    /\ End(g)
    /\ UNCHANGED <<mu, statements, call>>

\* roles, exists := r.roleMappings[principal], and the append
MapAccess(g) ==
    /\ pc[g] = "mapaccess"
    /\ IF local[g].op = "ExpandingEvaluate"
       THEN /\ local' = [local EXCEPT ![g].resolved =
                                          ResolvePrincipals(roleMappings, local[g].arg.Principal)]
            /\ pc' = [pc EXCEPT ![g] = "RLock"]
       ELSE /\ local' = [local EXCEPT ![g].result = ResolvePrincipals(roleMappings, local[g].arg)]
            /\ pc' = [pc EXCEPT ![g] = "return"]
    /\ UNCHANGED <<mu, store, call>>

\* Two goroutines are at accesses of r.roleMappings that nothing orders,
\* one of them a write.
MapRace ==
    \E g, h \in Goroutines :
        g # h /\ pc[g] = "mapassign" /\ pc[h] \in {"mapassign", "mapaccess"}

\* One outcome of such a pair of accesses: the runtime notices the map being
\* written ("fatal error: concurrent map read and map write", "concurrent
\* map writes") and ends the process.  The other outcomes are the two
\* orders of the accesses.
MapRaceFatal ==
    /\ MapRace
    /\ pc' = [g \in Goroutines |-> "fatal"]
    /\ UNCHANGED <<mu, local, store, call>>

\* The caller takes the result.
ReturnFrom(g) ==
    /\ pc[g] = "return"
    /\ End(g)
    /\ UNCHANGED <<mu, store, call>>

\* What the concurrent callers save, look up, map and ask.
ConcurrentStatementPool ==
    {s \in StatementPool : s.ID \in {"allow-local", "deny-remote"}}
ConcurrentRequestPool == {Req(UsersMark, ActRead, Invoice9, IPLocal)}
ConcurrentPrincipalPool == {UsersMark, RolesAnalyst}

NextConcurrent ==
    \/ \E g \in Goroutines, statement \in ConcurrentStatementPool :
          SaveStatementBegin(g, statement)
    \/ \E g \in Goroutines, statement \in ConcurrentStatementPool :
          DeleteStatementBegin(g, statement.ID)
    \/ \E g \in Goroutines, statement \in ConcurrentStatementPool :
          GetStatementBegin(g, statement.ID)
    \/ \E g \in Goroutines, principal \in ConcurrentPrincipalPool :
          ListStatementsByPrincipalBegin(g, principal)
    \/ \E g \in Goroutines, req \in ConcurrentRequestPool : EvaluateBegin(g, req)
    \/ \E g \in Goroutines, m \in RoleMappingPool : AddRoleMappingBegin(g, m[1], m[2])
    \/ \E g \in Goroutines, principal \in ConcurrentPrincipalPool :
          ResolvePrincipalsBegin(g, principal)
    \/ \E g \in Goroutines :
          \/ Lock(g) \/ LockAcquire(g) \/ Write(g) \/ Unlock(g)
          \/ RLock(g) \/ Read(g) \/ RUnlock(g) \/ EvaluateDecide(g)
          \/ MapAssign(g) \/ MapAccess(g) \/ ReturnFrom(g)
    \/ MapRaceFatal

SpecConcurrent == Init /\ [][NextConcurrent]_vars

(***************************************************************************)
(* The expanding evaluator called while other goroutines save and delete   *)
(* statements and map roles.                                               *)
(***************************************************************************)
ExpandingStatementPool ==
    {s \in StatementPool : s.ID \in {"allow-local", "deny-analyst-specific"} /\ s.Active}
ExpandingRequestPool == {Req(UsersMark, ActRead, Invoice1, IPLocal)}

NextExpanding ==
    \/ \E g \in Goroutines, statement \in ExpandingStatementPool :
          SaveStatementBegin(g, statement)
    \/ \E g \in Goroutines, statement \in ExpandingStatementPool :
          DeleteStatementBegin(g, statement.ID)
    \/ \E g \in Goroutines, m \in RoleMappingPool : AddRoleMappingBegin(g, m[1], m[2])
    \/ \E g \in Goroutines, req \in ExpandingRequestPool : ExpandingEvaluateBegin(g, req)
    \/ \E g \in Goroutines :
          \/ Lock(g) \/ LockAcquire(g) \/ Write(g) \/ Unlock(g)
          \/ RLock(g) \/ Read(g) \/ RUnlock(g) \/ EvaluateDecide(g)
          \/ MapAssign(g) \/ MapAccess(g) \/ ReturnFrom(g)
    \/ MapRaceFatal

SpecExpanding == Init /\ [][NextExpanding]_vars

(***************************************************************************)
(* Vocabulary of the properties, stated on a statement and a request       *)
(* without reference to the evaluator's loops.                             *)
(***************************************************************************)
\* Some pattern of the list matches the value ("*" standing for "**").
AnyPatternMatches(patterns, value) ==
    \E i \in 1..Len(patterns) :
        Match(IF patterns[i] = PatStar THEN PatDoubleStar ELSE patterns[i], value).matched

\* The statement matches the request on the three axes.
StructurallyMatches(stmt, req) ==
    /\ AnyPatternMatches(stmt.Principals, req.Principal)
    /\ AnyPatternMatches(stmt.Actions, req.Action)
    /\ AnyPatternMatches(stmt.Resources, req.Resource)

CondTrue(c, req)   == ConditionEvaluate(c, req).err = NilError /\ ConditionEvaluate(c, req).met
CondBroken(c, req) == ConditionEvaluate(c, req).err # NilError

\* The statement applies: it matches on the three axes and all its
\* conditions are true.
Applies(stmt, req) ==
    /\ StructurallyMatches(stmt, req)
    /\ \A i \in 1..Len(stmt.Conditions) : CondTrue(stmt.Conditions[i], req)

\* The statement matches on the three axes and one of its conditions
\* cannot be evaluated.
HasBrokenCondition(stmt, req) ==
    /\ StructurallyMatches(stmt, req)
    /\ \E i \in 1..Len(stmt.Conditions) : CondBroken(stmt.Conditions[i], req)

\* The statement matches on the three axes and the evaluation of its
\* conditions fails: the i-th cannot be evaluated and those before are true.
FailsAt(stmt, req, i) ==
    /\ StructurallyMatches(stmt, req)
    /\ i \in 1..Len(stmt.Conditions)
    /\ CondBroken(stmt.Conditions[i], req)
    /\ \A j \in 1..(i - 1) : CondTrue(stmt.Conditions[j], req)

Fails(stmt, req) == \E i \in 1..Len(stmt.Conditions) : FailsAt(stmt, req, i)

\* The message of the fail-closed Deny for a statement failing at i.
FailClosedMessage(stmt, req, i) ==
    <<"failed to evaluate condition for deny statement ", "\"", stmt.ID, "\"", ": ",
      "failed to evaluate condition ", "\"", stmt.Conditions[i].Name, "\"", ": ">>
    \o ConditionEvaluate(stmt.Conditions[i], req).err

\* The positions of the candidate list holding statements of an effect.
Candidates == listed.statements
DenyAt  == {i \in 1..Len(Candidates) : Candidates[i].Effect = EffectDeny}
AllowAt == {i \in 1..Len(Candidates) : Candidates[i].Effect = EffectAllow}

SomeDenyApplies  == \E i \in DenyAt : Applies(Candidates[i], request)
SomeDenyStops    == \E i \in DenyAt : Applies(Candidates[i], request) \/ Fails(Candidates[i], request)
SomeAllowApplies == \E i \in AllowAt : Applies(Candidates[i], request)

\* A call of Evaluator.Evaluate for which storage returned a list.
Evaluated == op = "Evaluate" /\ listed.err = NilError

IsDefaultDeny(r) == r.Effect = EffectDeny /\ ~r.Decider.present

NoApplicableMessage == <<"no applicable statements found, access denied by default">>
NoMatchingMessage   == <<"no matching statement found, access denied by default">>
NoExpandedMessage   ==
    <<"no matching statements found for any expanded principal, access denied by default">>

(***************************************************************************)
(* C1  Deny overrides allow: when storage returned a list in which a Deny  *)
(* statement applies to the request, Evaluate returns Deny, without error, *)
(* with the ID of a Deny statement of the list as Decider, whatever Allow  *)
(* statements apply and whatever the order of the list.                    *)
(***************************************************************************)
C1_DenyOverridesAllow ==
    (Evaluated /\ SomeDenyApplies) =>
        /\ err = NilError
        /\ response.Effect = EffectDeny
        /\ response.Decider.present
        /\ \E i \in DenyAt : response.Decider.value = <<Candidates[i].ID>>

\* A Deny statement applies, and an Allow statement that applies too comes
\* before it in the list.
C1_Witness ==
    /\ Evaluated
    /\ \E i \in AllowAt, j \in DenyAt :
          /\ i < j
          /\ Applies(Candidates[i], request)
          /\ Applies(Candidates[j], request)
    /\ response.Effect = EffectDeny

(***************************************************************************)
(* C2  Evaluate returns Allow only when no Deny statement of the list      *)
(* applied or failed its condition evaluation and some Allow statement     *)
(* applies; the Decider is then the ID of the first Allow statement of the *)
(* list that applies, and the Message is 'allowed by statement "<id>"'.    *)
(***************************************************************************)
FirstAllowApplying ==
    CHOOSE i \in AllowAt :
        /\ Applies(Candidates[i], request)
        /\ \A j \in AllowAt : Applies(Candidates[j], request) => i <= j

C2_AllowOnlyWhen ==
    (op = "Evaluate" /\ response.Effect = EffectAllow) =>
        /\ err = NilError /\ listed.err = NilError
        /\ ~SomeDenyStops
        /\ SomeAllowApplies
        /\ response.Decider = Ptr(<<Candidates[FirstAllowApplying].ID>>)
        /\ response.Message =
              <<"allowed by statement ", "\"", Candidates[FirstAllowApplying].ID, "\"">>

\* Allow is returned from a list with a Deny statement and two Allow
\* statements that apply.
C2_Witness ==
    /\ Evaluated
    /\ response.Effect = EffectAllow
    /\ DenyAt # {}
    /\ \E i, j \in AllowAt :
          i < j /\ Applies(Candidates[i], request) /\ Applies(Candidates[j], request)

(***************************************************************************)
(* C3  Evaluate returns a default deny (Deny without Decider) exactly when *)
(* no Deny statement applies or fails and no Allow statement applies; the  *)
(* Message is the "no applicable statements" one iff the list is empty and *)
(* the "no matching statement" one iff the list is not empty and nothing   *)
(* applied.                                                                *)
(***************************************************************************)
C3_DefaultDeny ==
    Evaluated =>
        /\ IsDefaultDeny(response) <=> (~SomeDenyStops /\ ~SomeAllowApplies)
        /\ response.Message = NoApplicableMessage <=> Len(Candidates) = 0
        /\ response.Message = NoMatchingMessage <=>
              (Len(Candidates) > 0 /\ ~SomeDenyStops /\ ~SomeAllowApplies)

\* A default deny on a list that holds an Allow statement matching on the
\* three axes.
C3_Witness ==
    /\ Evaluated
    /\ IsDefaultDeny(response)
    /\ response.Message = NoMatchingMessage
    /\ \E i \in AllowAt : StructurallyMatches(Candidates[i], request)

(***************************************************************************)
(* Vocabulary of the properties of the expanding evaluator.                *)
(***************************************************************************)
\* A call of ExpandingEvaluator.Evaluate in which the resolver and every
\* call of the wrapped evaluator succeeded; responses[i] is then what the
\* wrapped evaluator returned for resolved.principals[i].
Expanded_NoError ==
    /\ op = "ExpandingEvaluate"
    /\ resolved.err = NilError
    /\ Len(responses) = Len(resolved.principals)

ExplicitAt(effect) ==
    {i \in 1..Len(responses) : responses[i].Effect = effect /\ responses[i].Decider.present}

FirstOf(S) == CHOOSE i \in S : \A j \in S : i <= j

(***************************************************************************)
(* C4  In every Response returned without error, by Evaluate or by the     *)
(* expanding evaluator, the Decider is present iff an explicit statement   *)
(* (for the expanding evaluator: an explicit outcome for one of the        *)
(* principals) determined the result, and absent in every default deny; a  *)
(* Decider of Evaluate is the ID of a statement of the list whose Effect   *)
(* is the Effect of the Response.                                          *)
(***************************************************************************)
C4_DeciderIffExplicit ==
    /\ (op = "Evaluate" /\ err = NilError) =>
          /\ response.Decider.present <=> (SomeDenyStops \/ SomeAllowApplies)
          /\ response.Message \in {NoApplicableMessage, NoMatchingMessage}
                => ~response.Decider.present
          /\ response.Decider.present =>
                \E i \in 1..Len(Candidates) :
                    /\ response.Decider.value = <<Candidates[i].ID>>
                    /\ Candidates[i].Effect = response.Effect
    /\ (op = "ExpandingEvaluate" /\ err = NilError) =>
          /\ response.Decider.present <=>
                (Expanded_NoError /\ \E i \in 1..Len(responses) : responses[i].Decider.present)
          /\ response.Message = NoExpandedMessage => ~response.Decider.present

\* The expanding evaluator returns a Decider although the wrapped evaluator
\* answered a default deny for one of the principals.
C4_Witness ==
    /\ Expanded_NoError
    /\ response.Decider.present
    /\ \E i \in 1..Len(responses) : IsDefaultDeny(responses[i])

(***************************************************************************)
(* C5  As claimed: whenever a Deny statement of the list matches the       *)
(* request on the three axes and one of its conditions cannot be           *)
(* evaluated, Evaluate returns Deny without error, with that statement's   *)
(* ID as Decider and a Message naming the statement and the error.         *)
(***************************************************************************)
C5_FailClosedAsClaimed ==
    Evaluated =>
        \A i \in DenyAt :
            HasBrokenCondition(Candidates[i], request) =>
                /\ err = NilError
                /\ response.Effect = EffectDeny
                /\ response.Decider = Ptr(<<Candidates[i].ID>>)
                /\ \E k \in 1..Len(Candidates[i].Conditions) :
                      response.Message = FailClosedMessage(Candidates[i], request, k)

(***************************************************************************)
(* C5  As amended: whenever a Deny statement of the list matches the       *)
(* request on the three axes and the evaluation of its conditions, in list *)
(* order, reaches a condition that cannot be evaluated before any          *)
(* condition that is false, Evaluate returns Deny without error, with the  *)
(* ID of a Deny statement as Decider; the Decider is that statement's ID   *)
(* and the Message names it and the error when no Deny statement before it *)
(* in the list applies or fails in the same way.                           *)
(***************************************************************************)
C5_FailClosed ==
    Evaluated =>
        \A i \in DenyAt : \A k \in 1..Len(Candidates[i].Conditions) :
            FailsAt(Candidates[i], request, k) =>
                /\ err = NilError
                /\ response.Effect = EffectDeny
                /\ response.Decider.present
                /\ \E j \in DenyAt : response.Decider.value = <<Candidates[j].ID>>
                /\ (\A j \in DenyAt : j < i =>
                        ~Applies(Candidates[j], request) /\ ~Fails(Candidates[j], request))
                   => /\ response.Decider = Ptr(<<Candidates[i].ID>>)
                      /\ response.Message = FailClosedMessage(Candidates[i], request, k)

\* A Deny statement whose condition cannot be evaluated stops a request
\* that an Allow statement of the list would grant.
C5_Witness ==
    /\ Evaluated
    /\ \E i \in DenyAt :
          /\ Fails(Candidates[i], request)
          /\ response.Decider = Ptr(<<Candidates[i].ID>>)
    /\ SomeAllowApplies

(***************************************************************************)
(* C6  An Allow statement whose condition evaluation fails is skipped as   *)
(* a non-match: Evaluate returns no error, the statement is not the        *)
(* Decider, an explicit Deny comes from a Deny statement only, an Allow    *)
(* statement that applies anywhere in the list still grants Allow when no  *)
(* Deny statement stops the request, and when no statement applies the     *)
(* result is the default deny without Decider.                             *)
(***************************************************************************)
C6_AllowErrorSkipped ==
    Evaluated =>
        \A i \in AllowAt :
            Fails(Candidates[i], request) =>
                /\ err = NilError
                /\ response.Decider # Ptr(<<Candidates[i].ID>>)
                /\ (response.Effect = EffectDeny /\ response.Decider.present) => SomeDenyStops
                /\ (~SomeDenyStops /\ SomeAllowApplies) => response.Effect = EffectAllow
                /\ (~SomeDenyStops /\ ~SomeAllowApplies) =>
                      /\ IsDefaultDeny(response)
                      /\ response.Message = NoMatchingMessage

\* Allow is granted by a statement that comes after an Allow statement
\* whose condition evaluation fails.
C6_Witness ==
    /\ Evaluated
    /\ response.Effect = EffectAllow
    /\ \E i, j \in AllowAt :
          /\ i < j
          /\ Fails(Candidates[i], request)
          /\ response.Decider = Ptr(<<Candidates[j].ID>>)

(***************************************************************************)
(* C7  When ListStatementsByPrincipal returns an error, Evaluate returns   *)
(* the error "failed to list statements: <cause>" and no decision: the     *)
(* Response has neither Effect Allow nor Effect Deny, and no Decider.      *)
(***************************************************************************)
C7_StorageError ==
    (op = "Evaluate" /\ listed.err # NilError) =>
        /\ err = <<"failed to list statements: ">> \o listed.err
        /\ response.Effect \notin {EffectAllow, EffectDeny}
        /\ response.Message = <<>>
        /\ ~response.Decider.present

\* The in-memory store fails on a malformed principal pattern while it
\* holds a statement that applies to the request.
C7_Witness ==
    /\ op = "Evaluate"
    /\ listed.err = ErrBadPattern
    /\ \E id \in DOMAIN statements : Applies(statements[id], request)

(***************************************************************************)
(* C8  When the resolver and the wrapped evaluator return no error, the    *)
(* expanding evaluator returns Deny if the wrapped evaluator returned an   *)
(* explicit Deny for any resolved principal, else Allow if it returned an  *)
(* explicit Allow for any, else Deny without Decider and with the message  *)
(* "no matching statements found for any expanded principal, ...".         *)
(***************************************************************************)
C8_ExpansionMerge ==
    Expanded_NoError =>
        /\ err = NilError
        /\ ExplicitAt(EffectDeny) # {} => response.Effect = EffectDeny /\ response.Decider.present
        /\ (ExplicitAt(EffectDeny) = {} /\ ExplicitAt(EffectAllow) # {})
              => response.Effect = EffectAllow /\ response.Decider.present
        /\ (ExplicitAt(EffectDeny) = {} /\ ExplicitAt(EffectAllow) = {})
              => /\ IsDefaultDeny(response)
                 /\ response.Message = NoExpandedMessage

\* An explicit Deny for a later principal overrides an explicit Allow for
\* an earlier one.
C8_Witness ==
    /\ Expanded_NoError
    /\ \E i \in ExplicitAt(EffectAllow), j \in ExplicitAt(EffectDeny) : i < j
    /\ response.Effect = EffectDeny

(***************************************************************************)
(* C9  The Decider of an explicit result of the expanding evaluator is     *)
(* "principal_expansion:<p>", p being the first principal, in the order of *)
(* the resolver, with an explicit outcome of the Response's Effect.        *)
(***************************************************************************)
C9_FirstPrincipalDecides ==
    (op = "ExpandingEvaluate" /\ response.Decider.present) =>
        /\ Expanded_NoError
        /\ ExplicitAt(response.Effect) # {}
        /\ response.Decider.value =
              <<"principal_expansion:">> \o resolved.principals[FirstOf(ExplicitAt(response.Effect))]

\* Two principals have an explicit Allow and the result is Allow.
C9_Witness ==
    /\ Expanded_NoError
    /\ response.Effect = EffectAllow
    /\ Cardinality(ExplicitAt(EffectAllow)) >= 2

(***************************************************************************)
(* C10  When ResolvePrincipals returns an error, the expanding evaluator   *)
(* returns no error and a Deny without Decider whose Message embeds the    *)
(* resolver's error, and does not call the wrapped evaluator; and the      *)
(* expanding evaluator never returns an error.                             *)
(***************************************************************************)
C10_ResolverError ==
    op = "ExpandingEvaluate" =>
        /\ err = NilError
        /\ resolved.err # NilError =>
              /\ IsDefaultDeny(response)
              /\ response.Message = <<"failed to resolve principals: ">> \o resolved.err
              /\ invoked = 0
              /\ responses = <<>>

\* The resolver fails for a request that a statement of the store allows.
C10_Witness ==
    /\ op = "ExpandingEvaluate"
    /\ resolved.err # NilError
    /\ \E id \in DOMAIN statements :
          statements[id].Effect = EffectAllow /\ Applies(statements[id], request)

(***************************************************************************)
(* Vocabulary: the wrapped evaluator on the state's store.                 *)
(***************************************************************************)
\* The error NewEvaluator(storage).Evaluate returns for the i-th resolved
\* principal of the call on record; whether the in-memory store fails does
\* not depend on the order in which it visits its map.
WrappedError(i) ==
    LET p == resolved.principals[i]
        l == CHOOSE x \in ListStatementsByPrincipal(statements, p) : TRUE
    IN  Evaluate(l, Expanded(request, p)).err

\* The first resolved principal for which the wrapped evaluator fails.
FirstWrappedErrorAt(i) ==
    /\ i \in 1..Len(resolved.principals)
    /\ WrappedError(i) # NilError
    /\ \A j \in 1..(i - 1) : WrappedError(j) = NilError

(***************************************************************************)
(* C11  When the wrapped evaluator returns an error for a resolved         *)
(* principal, the expanding evaluator stops there: it has called the       *)
(* wrapped evaluator for that principal and those before it only, and it   *)
(* returns no error and a Deny without Decider whose Message is            *)
(* "evaluation error for principal <p>: <error>", also when an earlier     *)
(* principal had an explicit Allow.                                        *)
(***************************************************************************)
C11_WrappedErrorStops ==
    (op = "ExpandingEvaluate" /\ resolved.err = NilError) =>
        \A i \in 1..Len(resolved.principals) :
            FirstWrappedErrorAt(i) =>
                /\ err = NilError
                /\ invoked = i
                /\ Len(responses) = i - 1
                /\ IsDefaultDeny(response)
                /\ response.Message =
                      <<"evaluation error for principal ">> \o resolved.principals[i]
                      \o <<": ">> \o WrappedError(i)

\* The wrapped evaluator fails for the second of three principals after an
\* explicit Allow for the first.
C11_Witness ==
    /\ op = "ExpandingEvaluate"
    /\ Len(resolved.principals) = 3
    /\ FirstWrappedErrorAt(2)
    /\ ExplicitAt(EffectAllow) = {1}
    /\ response.Effect = EffectDeny

(***************************************************************************)
(* C12  After any sequence of AddRoleMapping calls, ResolvePrincipals(p)   *)
(* returns, without error, a list that starts with p; for a p that begins  *)
(* with "users/" and has a mapping the rest of the list is the roles last  *)
(* stored for p, in their order; for any other p the list is <<p>>, also   *)
(* when a mapping is stored for it; and no role of the list is replaced or *)
(* followed by the roles stored for that role.                             *)
(***************************************************************************)
IsUserPrincipal(p) ==
    Len(p) >= 6 /\ SubSeq(p, 1, 6) = <<"u", "s", "e", "r", "s", "/">>

C12_ResolveShape ==
    op = "ResolvePrincipals" =>
        LET p    == request.Principal
            list == resolved.principals
        IN  /\ err = NilError /\ resolved.err = NilError
            /\ Len(list) >= 1 /\ list[1] = p
            /\ (IsUserPrincipal(p) /\ p \in DOMAIN roleMappings) =>
                  /\ Len(list) = 1 + Len(roleMappings[p])
                  /\ \A i \in 1..Len(roleMappings[p]) : list[i + 1] = roleMappings[p][i]
            /\ (~IsUserPrincipal(p) \/ p \notin DOMAIN roleMappings) => list = <<p>>

\* A user is resolved to a role that has a mapping of its own, and the
\* roles of that mapping are not in the list.
C12_Witness ==
    /\ op = "ResolvePrincipals"
    /\ Len(resolved.principals) = 2
    /\ resolved.principals[2] \in DOMAIN roleMappings
    /\ roleMappings[resolved.principals[2]] # <<>>
    /\ \A i \in 1..Len(roleMappings[resolved.principals[2]]) :
          roleMappings[resolved.principals[2]][i] # resolved.principals[1]

(***************************************************************************)
(* C13  Idempotence: when a caller evaluates a request twice on the        *)
(* in-memory store with no operation on the store in between, the second   *)
(* call returns what the first returned: the same Effect, Message and      *)
(* Decider and the same error, also when several statements of the same    *)
(* effect apply to the request.                                            *)
(***************************************************************************)
C13_Idempotent ==
    (op = "Evaluate" /\ previous.present) =>
        /\ response.Effect = previous.resp.Effect
        /\ response.Message = previous.resp.Message
        /\ response.Decider = previous.resp.Decider
        /\ err = previous.err

(***************************************************************************)
(* C14  The list the in-memory store returns to Evaluate holds exactly the *)
(* statements of the store that are active and have a principal pattern    *)
(* matching the request's principal; so the statement whose ID is the      *)
(* Decider of the Response, Allow or Deny, is an active one.               *)
(***************************************************************************)
ActiveMatching(principal) ==
    {statements[id] : id \in
        {d \in DOMAIN statements :
            /\ statements[d].Active
            /\ \E i \in 1..Len(statements[d].Principals) :
                  Match(statements[d].Principals[i], principal).matched}}

C14_ActiveOnly ==
    Evaluated =>
        /\ {Candidates[i] : i \in 1..Len(Candidates)} = ActiveMatching(request.Principal)
        /\ \A id \in DOMAIN statements :
              response.Decider = Ptr(<<id>>) => statements[id].Active

(***************************************************************************)
(* C15  A bare pattern "*" behaves as "**" on every axis, for a request    *)
(* evaluated over the in-memory store: a statement of the store with the   *)
(* principal pattern "*" is among the candidates whatever the principal,   *)
(* a candidate with the pattern "*" on an axis matches on that axis, and a *)
(* statement with "*" on the three axes and no condition decides the       *)
(* request or is overridden by another statement: the result is no         *)
(* default deny.                                                           *)
(***************************************************************************)
HasBareStar(patterns) == \E i \in 1..Len(patterns) : patterns[i] = <<"*">>

C15_BareStar ==
    Evaluated =>
        /\ \A id \in DOMAIN statements :
              LET s == statements[id]
              IN  /\ HasBareStar(s.Principals) =>
                        \E i \in 1..Len(Candidates) : Candidates[i] = s
                  /\ ( /\ HasBareStar(s.Principals)
                       /\ AnyPatternMatches(s.Actions, request.Action)
                       /\ AnyPatternMatches(s.Resources, request.Resource)
                       /\ s.Conditions = <<>>
                       /\ s.Effect \in {EffectAllow, EffectDeny} )
                     => response.Decider.present
        /\ \A i \in 1..Len(Candidates) :
              /\ HasBareStar(Candidates[i].Principals) =>
                    principalMatches(Candidates[i].Principals, request.Principal)
              /\ HasBareStar(Candidates[i].Actions) =>
                    actionMatches(Candidates[i].Actions, request.Action)
              /\ HasBareStar(Candidates[i].Resources) =>
                    resourceMatches(Candidates[i].Resources, request.Resource)

(***************************************************************************)
(* Vocabulary of the properties of pattern matching.                       *)
(***************************************************************************)
MatchesCalled == op \in {"actionMatches", "resourceMatches", "principalMatches"}

NoStar(s)  == \A i \in 1..Len(s) : s[i] # "*"
NoSlash(s) == \A i \in 1..Len(s) : s[i] # "/"

\* v is pre, a run of characters and suf, and the run satisfies Run.
Around(v, pre, suf, Run(_)) ==
    /\ Len(v) >= Len(pre) + Len(suf)
    /\ SubSeq(v, 1, Len(pre)) = pre
    /\ SubSeq(v, Len(v) - Len(suf) + 1, Len(v)) = suf
    /\ Run(SubSeq(v, Len(pre) + 1, Len(v) - Len(suf)))

AnyRun(s) == TRUE

ProcessRunning == \A g \in Goroutines : pc[g] # "fatal"

InWriteSection(g) == pc[g] \in {"write", "Unlock"}
InReadSection(g)  == pc[g] \in {"read", "RUnlock"}
\* g has announced itself as a writer and not yet released the lock.
WriterAnnounced(g) == pc[g] \in {"LockWait", "write", "Unlock"}

(***************************************************************************)
(* C17  Reader/writer discipline of the in-memory store, under every       *)
(* interleaving of SaveStatement, DeleteStatement, GetStatement,           *)
(* ListStatementsByPrincipal and Evaluate: a goroutine at the write of the *)
(* map is there alone, no other goroutine being at a write or a read of    *)
(* it; a reader waits only for a writer, never for readers; a goroutine    *)
(* running Evaluate holds the lock exactly while it is inside              *)
(* ListStatementsByPrincipal and holds none while it decides on the list   *)
(* returned; and a writer waits only for goroutines that are between       *)
(* taking and releasing the lock, so never for one that is deciding.       *)
(* The statement is about the running process: once the runtime has ended  *)
(* it, no goroutine is anywhere.                                           *)
(***************************************************************************)
C17_ReaderWriter ==
    ProcessRunning =>
    \A g \in Goroutines :
        /\ pc[g] = "write" =>
              \A h \in Goroutines \ {g} : pc[h] \notin {"write", "read"}
        /\ mu.writer = g <=> InWriteSection(g)
        /\ g \in mu.readers <=> InReadSection(g)
        /\ (pc[g] = "RLock" /\ ~CanRLock(mu)) =>
              \E h \in Goroutines \ {g} : WriterAnnounced(h)
        /\ pc[g] \in {"decide", "return"} => (g \notin mu.readers /\ mu.writer # g)
        /\ (pc[g] = "Lock" /\ ~CanLock(mu)) =>
              \E h \in Goroutines \ {g} : WriterAnnounced(h)
        /\ (pc[g] = "LockWait" /\ ~CanLockAcquire(mu)) =>
              \E h \in Goroutines \ {g} : InReadSection(h)

\* A writer is at its write of the map while another goroutine decides a
\* request on a list of statements it took before.
C17_Witness ==
    \E g, h \in Goroutines :
        /\ pc[g] = "write"
        /\ pc[h] = "decide"
        /\ local[h].listed.statements # <<>>

\* Two readers are inside the map together.
ReadersTogether ==
    \E g, h \in Goroutines : g # h /\ pc[g] = "read" /\ pc[h] = "read"

(***************************************************************************)
(* C18  The resolver is safe under concurrent use: in no state are two     *)
(* goroutines at accesses of the roleMappings map that nothing orders, one *)
(* of them the write of AddRoleMapping, and the runtime never ends the     *)
(* process for a concurrent access of the map.                             *)
(***************************************************************************)
C18_ResolverSynchronised ==
    /\ ~MapRace
    /\ \A g \in Goroutines : pc[g] # "fatal"

\* Some condition of the statement cannot be evaluated, whatever the request.
HasBrokenConditionAnywhere(stmt) ==
    \E i \in 1..Len(stmt.Conditions) :
        exprCompile(stmt.Conditions[i].Expression).err # NilError
        \/ stmt.Conditions[i].Expression = ExprRuntime

(***************************************************************************)
(* C19  statementMatches(stmt, req) answers true iff at least one          *)
(* principal pattern, one action pattern and one resource pattern of the   *)
(* statement match the request and all its conditions are true; a          *)
(* statement with an empty list of principals, actions or resources never  *)
(* applies; and the conditions are evaluated only after the three axes     *)
(* matched: a statement that does not match on an axis gives no error, so  *)
(* a Deny statement with a broken condition that does not match the        *)
(* request on the three axes is not the Decider of a Deny.                 *)
(***************************************************************************)
C19_AppliesIff ==
    /\ op = "statementMatches" =>
          LET stmt == helper.args.stmt
              req  == helper.args.req
          IN  /\ helper.result.matches <=> Applies(stmt, req)
              /\ (stmt.Principals = <<>> \/ stmt.Actions = <<>> \/ stmt.Resources = <<>>)
                    => ~helper.result.matches
              /\ ~StructurallyMatches(stmt, req) =>
                    (~helper.result.matches /\ helper.result.err = NilError)
              /\ helper.result.err # NilError => Fails(stmt, req)
    /\ Evaluated =>
          \A i \in DenyAt :
              (HasBrokenConditionAnywhere(Candidates[i]) /\ ~StructurallyMatches(Candidates[i], request)
                  /\ \A j \in 1..Len(Candidates) : j # i => Candidates[j].ID # Candidates[i].ID)
                 => response.Decider # Ptr(<<Candidates[i].ID>>)

\* statementMatches is asked about a Deny statement whose only condition
\* cannot be evaluated and whose actions do not match the request.
C19_Witness ==
    /\ op = "statementMatches"
    /\ helper.args.stmt.Effect = EffectDeny
    /\ helper.args.stmt.Conditions = <<Cond("BadCond", ExprInvalid)>>
    /\ AnyPatternMatches(helper.args.stmt.Principals, helper.args.req.Principal)
    /\ AnyPatternMatches(helper.args.stmt.Resources, helper.args.req.Resource)
    /\ ~AnyPatternMatches(helper.args.stmt.Actions, helper.args.req.Action)
    /\ helper.args.stmt.Actions # <<>>
    /\ helper.result = [matches |-> FALSE, err |-> NilError]

\* The first condition of the list that is not true for the request: false,
\* or not evaluable.  0 when every condition is true.
RECURSIVE FirstNotTrue(_, _, _)
FirstNotTrue(conditions, req, i) ==
    IF i > Len(conditions) THEN 0
    ELSE IF CondTrue(conditions[i], req) THEN FirstNotTrue(conditions, req, i + 1)
    ELSE i

(***************************************************************************)
(* C20  allConditionsMet goes through the conditions in the order of the   *)
(* list and stops at the first decisive one: it answers true iff every     *)
(* condition is true (an empty list is true); at the first false           *)
(* condition it answers false without error and evaluates no later         *)
(* condition; at the first condition that cannot be evaluated it answers   *)
(* with the error of that condition.                                       *)
(***************************************************************************)
C20_InOrderShortCircuit ==
    op = "allConditionsMet" =>
        LET conditions == helper.args.conditions
            req        == helper.args.req
            k          == FirstNotTrue(conditions, req, 1)
            r          == helper.result
        IN  /\ r.met <=> \A i \in 1..Len(conditions) : CondTrue(conditions[i], req)
            /\ conditions = <<>> => (r.met /\ r.err = NilError)
            /\ k = 0 => (r.err = NilError /\ r.evaluated = Len(conditions))
            /\ (k > 0 /\ ConditionEvaluate(conditions[k], req).err = NilError)
                  => (~r.met /\ r.err = NilError /\ r.evaluated = k)
            /\ (k > 0 /\ ConditionEvaluate(conditions[k], req).err # NilError)
                  => /\ ~r.met
                     /\ r.evaluated = k
                     /\ r.err = <<"failed to evaluate condition ">> \o Quote(conditions[k].Name)
                                \o <<": ">> \o ConditionEvaluate(conditions[k], req).err

\* A true condition, then a false one, then one that cannot be evaluated:
\* the answer is false without error after two evaluations.
C20_Witness ==
    /\ op = "allConditionsMet"
    /\ helper.args.req.Context.IP = IPLocal
    /\ helper.args.conditions = << Cond("IsLocal", ExprIsLocal), Cond("IsRemote", ExprIsRemote),
                                   Cond("BadCond", ExprInvalid) >>
    /\ helper.result = [met |-> FALSE, err |-> NilError, evaluated |-> 2]

\* The expression of the condition gives a value that is no bool.
NonBoolCondition(c) == c.Expression = ExprNonBool

\* The statement carries a condition whose value is no bool.
CarriesNonBool(stmt) ==
    \E i \in 1..Len(stmt.Conditions) : NonBoolCondition(stmt.Conditions[i])

(***************************************************************************)
(* C21  A condition whose expression gives a value that is no bool is      *)
(* false and never an error: Condition.Evaluate answers (false, nil);      *)
(* allConditionsMet answers false without error when it reaches such a     *)
(* condition; a statement carrying one never applies, and an error of      *)
(* statementMatches for it comes from another condition, one that cannot   *)
(* be evaluated; and in Evaluate such a statement, Allow or Deny, is never *)
(* the Decider unless a condition before it cannot be evaluated.           *)
(***************************************************************************)
C21_NonBoolIsFalse ==
    /\ (op = "Condition.Evaluate" /\ NonBoolCondition(helper.args.c)) =>
          helper.result = [met |-> FALSE, err |-> NilError]
    /\ op = "allConditionsMet" =>
          \A i \in 1..Len(helper.args.conditions) :
              (/\ NonBoolCondition(helper.args.conditions[i])
               /\ \A j \in 1..(i - 1) : CondTrue(helper.args.conditions[j], helper.args.req))
                 => (~helper.result.met /\ helper.result.err = NilError)
    /\ (op = "statementMatches" /\ CarriesNonBool(helper.args.stmt)) =>
          /\ ~helper.result.matches
          /\ helper.result.err # NilError => Fails(helper.args.stmt, helper.args.req)
    /\ Evaluated =>
          \A i \in 1..Len(Candidates) :
              (/\ CarriesNonBool(Candidates[i])
               /\ ~Fails(Candidates[i], request)
               /\ \A j \in 1..Len(Candidates) : j # i => Candidates[j].ID # Candidates[i].ID)
                 => response.Decider # Ptr(<<Candidates[i].ID>>)

\* Evaluate over a single Deny statement that matches the request on the
\* three axes and whose only condition gives a value that is no bool: the
\* default Deny, not a Deny of the statement.
C21_Witness ==
    /\ Evaluated
    /\ Len(Candidates) = 1
    /\ Candidates[1].Effect = EffectDeny
    /\ StructurallyMatches(Candidates[1], request)
    /\ Candidates[1].Conditions = <<Cond("NonBool", ExprNonBool)>>
    /\ response = DefaultDenyNoMatch
    /\ err = NilError

\* doublestar.Match rejects the pattern for the value.
Rejected(pattern, value) == Match(pattern, value).err # NilError

\* Ranging over the principals of a statement of the store, the store comes
\* to a pattern doublestar.Match rejects before any pattern matched.
MeetsMalformed(principal) ==
    \E id \in DOMAIN statements :
        \E i \in 1..Len(statements[id].Principals) :
            /\ Rejected(statements[id].Principals[i], principal)
            /\ \A j \in 1..(i - 1) : ~Match(statements[id].Principals[j], principal).matched

\* The statement has, on one of the three axes, a rejected pattern in front
\* of a pattern that matches the request.
MatchesPastMalformed(stmt, req) ==
    \/ \E i, j \in 1..Len(stmt.Principals) :
          i < j /\ Rejected(stmt.Principals[i], req.Principal)
                /\ Match(stmt.Principals[j], req.Principal).matched
    \/ \E i, j \in 1..Len(stmt.Actions) :
          i < j /\ Rejected(stmt.Actions[i], req.Action)
                /\ Match(stmt.Actions[j], req.Action).matched
    \/ \E i, j \in 1..Len(stmt.Resources) :
          i < j /\ Rejected(stmt.Resources[i], req.Resource)
                /\ Match(stmt.Resources[j], req.Resource).matched

ListingErrorText == <<"failed to list statements: ">> \o ErrBadPattern

\* The first of the expanded principals for which the store's listing
\* comes to a rejected pattern; 0 when there is none.
FirstMeetingMalformed ==
    LET S == {i \in 1..Len(resolved.principals) : MeetsMalformed(resolved.principals[i])}
    IN  IF S = {} THEN 0 ELSE CHOOSE i \in S : \A j \in S : i <= j

(***************************************************************************)
(* C22  A malformed pattern is handled by call site.  Inside statement     *)
(* evaluation a malformed principal, action or resource pattern is a       *)
(* pattern that does not match: the other patterns of its list are still   *)
(* tried, the statement applies when they match, and no error results.     *)
(* In the store's ListStatementsByPrincipal a malformed principal pattern  *)
(* that is met ends the listing with an error: Evaluate returns the zero   *)
(* Response and the error "failed to list statements: ...", and the        *)
(* expanding evaluator returns, without error, a Deny without Decider      *)
(* whose Message names the principal and carries that error.               *)
(***************************************************************************)
C22_MalformedByCallSite ==
    /\ Evaluated =>
          /\ err = NilError
          /\ response.Effect = EffectAllow <=> (SomeAllowApplies /\ ~SomeDenyApplies)
          /\ \A i \in AllowAt :
                (/\ MatchesPastMalformed(Candidates[i], request)
                 /\ Applies(Candidates[i], request)
                 /\ ~SomeDenyApplies)
                   => response.Effect = EffectAllow
    /\ op = "Evaluate" =>
          /\ MeetsMalformed(request.Principal) <=> listed.err # NilError
          /\ MeetsMalformed(request.Principal) =>
                (listed.err = ErrBadPattern /\ response = ZeroResponse /\ err = ListingErrorText)
    /\ (op = "ExpandingEvaluate" /\ FirstMeetingMalformed > 0) =>
          /\ err = NilError
          /\ response = [Effect  |-> EffectDeny,
                         Message |-> <<"evaluation error for principal ">>
                                     \o resolved.principals[FirstMeetingMalformed]
                                     \o <<": ">> \o ListingErrorText,
                         Decider |-> NilDecider]
          /\ invoked = FirstMeetingMalformed
    /\ (op = "ExpandingEvaluate" /\ FirstMeetingMalformed = 0) =>
          (err = NilError /\ invoked = Len(resolved.principals))

\* The expanding evaluator evaluates users/mark, whose statement with a
\* malformed action pattern in front of "read" allows, and then comes to a
\* role for which the store's listing meets the malformed principal pattern.
C22_Witness ==
    /\ op = "ExpandingEvaluate"
    /\ FirstMeetingMalformed = 2
    /\ Len(responses) = 1
    /\ responses[1].Effect = EffectAllow
    /\ responses[1].Decider = Ptr(<<"allow-mark-bad-pattern">>)
    /\ response.Effect = EffectDeny
    /\ ~response.Decider.present

\* Evaluate on a list with a statement that applies past a malformed pattern.
C22_WitnessEvaluate ==
    /\ Evaluated
    /\ \E i \in AllowAt : MatchesPastMalformed(Candidates[i], request) /\ Applies(Candidates[i], request)
    /\ response.Effect = EffectAllow

\* The list in every order.
Reordered(stmts) ==
    {[i \in 1..Len(stmts) |-> stmts[p[i]]] : p \in Permutations(1..Len(stmts))}

\* The statements of the list at the positions S, in the order of the list.
RECURSIVE AtPositions(_, _, _)
AtPositions(stmts, S, i) ==
    IF i > Len(stmts) THEN <<>>
    ELSE (IF i \in S THEN <<stmts[i]>> ELSE <<>>) \o AtPositions(stmts, S, i + 1)

\* Evaluate on the list in the given order.
InOrder(stmts) == Evaluate([statements |-> stmts, err |-> NilError], request)

(***************************************************************************)
(* C23  The Effect of Evaluate does not depend on the order of the list    *)
(* storage returned: every reordering of the list gives, without error,    *)
(* the same Effect, which is Allow exactly when some Allow statement       *)
(* applies and no Deny statement applies or fails.  The Deny and the Allow *)
(* part of the list keep the statements in the order of the list, and a    *)
(* statement whose Effect is neither is in neither part.                   *)
(***************************************************************************)
C23_OrderIndependent ==
    Evaluated =>
        /\ \A stmts \in Reordered(Candidates) :
              /\ InOrder(stmts).err = NilError
              /\ InOrder(stmts).resp.Effect = response.Effect
        /\ response.Effect = EffectAllow <=> (SomeAllowApplies /\ ~SomeDenyStops)
        /\ response.Effect \in {EffectAllow, EffectDeny}
        /\ filterStatementsByEffect(Candidates, EffectDeny) = AtPositions(Candidates, DenyAt, 1)
        /\ filterStatementsByEffect(Candidates, EffectAllow) = AtPositions(Candidates, AllowAt, 1)
        /\ \A i \in 1..Len(Candidates) :
              i \notin DenyAt \cup AllowAt =>
                 \A k \in 1..Len(Candidates) :
                    /\ k \in DOMAIN filterStatementsByEffect(Candidates, EffectDeny)
                          => filterStatementsByEffect(Candidates, EffectDeny)[k] # Candidates[i]
                    /\ k \in DOMAIN filterStatementsByEffect(Candidates, EffectAllow)
                          => filterStatementsByEffect(Candidates, EffectAllow)[k] # Candidates[i]

\* Three statements, an Allow and a Deny that both apply and one whose
\* Effect is neither, with the Allow in front of the Deny: the Effect is
\* Deny, as it is in every other order.
C23_Witness ==
    /\ Evaluated
    /\ Len(Candidates) = 3
    /\ \E a \in AllowAt, d \in DenyAt :
          a < d /\ Applies(Candidates[a], request) /\ Applies(Candidates[d], request)
    /\ \E i \in 1..3 : i \notin DenyAt \cup AllowAt
    /\ response.Effect = EffectDeny

\* Two Allow statements that both apply: the Decider follows the order.
C23_WitnessDecider ==
    /\ Evaluated
    /\ \E stmts \in Reordered(Candidates) :
          /\ InOrder(stmts).resp.Effect = response.Effect
          /\ InOrder(stmts).resp.Decider # response.Decider

\* What the wrapped evaluator can return for the principals from the i-th
\* on when every listing is taken from the one store S.
RECURSIVE WrappedOn(_, _, _, _)
WrappedOn(S, principals, req, i) ==
    IF i > Len(principals) THEN {<<>>}
    ELSE LET heads == {Evaluate(l, Expanded(req, principals[i])) :
                         l \in ListStatementsByPrincipal(S, principals[i])}
         IN  {<<h>> \o t : h \in heads, t \in WrappedOn(S, principals, req, i + 1)}

\* The Responses the expanding evaluator can return for the request and the
\* resolved principals against the one store S.
ResponsesOn(S, res, req) ==
    {ExpandingEvaluate(res, outs, req).resp : outs \in WrappedOn(S, res.principals, req, 1)}

\* The principal whose statements goroutine g is listing.
ListingFor(g) == local[g].resolved.principals[Len(local[g].outs) + 1]

(***************************************************************************)
(* C24  Evaluation stays consistent with the store under concurrent        *)
(* writes: the list a call of Evaluate decides on is the listing of the    *)
(* one store it read under the read lock, and a call of the expanding      *)
(* evaluator that interleaves with SaveStatement and DeleteStatement       *)
(* returns a Response it could return against one single state the store   *)
(* had between the start of the call and its return; so it never returns   *)
(* Allow when every such state of the store gives Deny.                    *)
(***************************************************************************)
C24_SnapshotConsistent ==
    ProcessRunning =>
    \A g \in Goroutines :
        local[g].op = "ExpandingEvaluate" =>
            /\ pc[g] = "RUnlock" =>
                  local[g].listed \in ListStatementsByPrincipal(statements, ListingFor(g))
            /\ pc[g] = "return" =>
                  \E S \in local[g].seen :
                      local[g].result.resp \in ResponsesOn(S, local[g].resolved, local[g].arg)

\* The expanding evaluator returns Allow although every state the store had
\* during the call gives Deny.
AllowNeverJustified ==
    \E g \in Goroutines :
        /\ local[g].op = "ExpandingEvaluate"
        /\ pc[g] = "return"
        /\ local[g].result.resp.Effect = EffectAllow
        /\ \A S \in local[g].seen :
              \A r \in ResponsesOn(S, local[g].resolved, local[g].arg) : r.Effect = EffectDeny

=============================================================================
